---- MODULE Spec2Model ----
(***************************************************************************)
(* Order-intake conversation of app/bot.py: the FSM state pointer, the     *)
(* order document, the step history with its resume slot, the single       *)
(* order message that render_step edits in place, and finalize_order.      *)
(* Cyrillic literals of the source are transliterated.                     *)
(***************************************************************************)
EXTENDS Integers, Sequences, FiniteSets, TLC

VARIABLES state, order, history, current_step, resume_step, back_mode,
          order_message_id, view, managers_map, pc, fin, outbox, nav_used,
          view_at_back, admin, dispatcher

vars == <<state, order, history, current_step, resume_step, back_mode,
          order_message_id, view, managers_map, pc, fin, outbox, nav_used,
          view_at_back, admin, dispatcher>>

\* ------------------------------------------------------------------ bounds
\* Back presses explored per order.
MaxNav == 2
\* Attachments accepted per order.
MaxFiles == 3
\* Events of one conversation handled while an earlier render is outstanding.
MaxAhead == 1
\* Directory changes the administrator saves.
MaxEdits == 1
\* Back presses in one order of background wallpaper.
MaxBacks == 4

\* --------------------------------------------------------------- constants
\* Python None, and the FSM state after state.clear().
Null == "None"
\* 5 * 1024 * 1024 and 15 * 1024 * 1024 bytes.
PerFileLimit == 5242880
TotalLimit == 15728640

\* ------------------------------------------------------------ config lists
freski_catalogs == <<"Biblioteka Affresco", "Individualnaya otrisovka">>

designer_catalogs ==
  <<"Labirint", "Wallpaper I", "Wallpaper II", "Wallpaper III", "Favorite Art",
    "Line Art", "Emotion Art", "Fantasy", "Fluid", "Rio", "Atmosphere",
    "Exclusive", "Skazki Affresco", "Fine Art", "Trend Art", "New Art",
    "Re-Space", "Art Fabric">>

freski_library_catalogs == designer_catalogs \o <<"Freski fotooboi">>

designer_panel_sizes ==
  <<"67 x 200", "73 x 220", "80 x 240", "87 x 260", "93 x 280", "100 x 300",
    "105 x 315">>

production_types == <<"Edinym polotnom", "Porezat na polotna">>

background_catalogs ==
  <<"Dream Forest", "Exclusive", "Affresco Colore", "Botanika", "Ethno">>

background_materials == <<"Velur", "Kolore">>

background_heights_velour == <<200, 220, 240, 260, 280, 300, 315>>

background_heights_colore == <<220, 240, 260, 280, 300>>

freski_materials ==
  <<"Velur", "Satin", "Savanna", "Beze", "Velatura", "Sabbia", "Sabbia Fasad",
    "Pietra", "Krakelur", "Fabriz X", "Fabriz Y", "Kolore", "Kolore Lait">>

delivery_carriers ==
  <<"Kurerskaya Moskva", "Samovyvoz", "BaikalServis", "VERA-1",
    "Global logistik", "Delovye linii", "Dikom", "Megatransservis",
    "Meidzhik Trans", "Novaya liniya", "Pegas TEK", "PEK", "SDEK">>

delivery_types == <<"Do terminala TK", "Do adresa">>

\* BotConfig declares no smtp_host / smtp_port / smtp_user / smtp_password
\* field, so reading config.smtp_host raises AttributeError.
ConfigHasSmtp == FALSE

\* FORWARD_TO_ADMINS defaults to "true".
forward_to_admins == TRUE

\* ---------------------------------------------------------------- keyboards
Button(text, prefix, idx) == [text |-> text, prefix |-> prefix, idx |-> idx]

\* reply_markup=None
NoKb == <<>>

yes_no_kb == <<Button("Da", "yes", 0), Button("Net", "no", 0)>>

list_kb(items, prefix) ==
  [i \in 1..Len(items) |-> Button(items[i], prefix, i - 1)]

main_menu_kb ==
  <<Button("Freski", "menu:freski", 0),
    Button("Dizainerskie oboi", "menu:designer", 0),
    Button("Fonovye oboi", "menu:background", 0),
    Button("Kartiny", "menu:paintings", 0)>>

new_order_kb == <<Button("Sdelat eshe zakaz", "new_order", 0)>>

comment_kb ==
  <<Button("Otmena", "comment:skip", 0), Button("Gotovo", "comment:done", 0)>>

nav_kb(show_back, show_continue) ==
  (IF show_back THEN <<Button("Nazad", "nav:back", 0)>> ELSE <<>>)
  \o (IF show_continue THEN <<Button("Prodolzhit", "nav:continue", 0)>> ELSE <<>>)

merge_kb(base_kb, nav) == base_kb \o nav

\* A button with this callback data is on the keyboard.
HasButton(kb, prefix, idx) ==
  \E i \in 1..Len(kb) : kb[i].prefix = prefix /\ kb[i].idx = idx

\* ------------------------------------------------------------- order record
build_empty_order(telegram) ==
  [client |-> [telegram |-> telegram, legal_entity |-> Null, city |-> Null,
               phone |-> Null, email |-> Null, region |-> Null,
               manager_email |-> Null, manager_name |-> Null],
   freski |-> [enabled |-> FALSE, catalog_name |-> Null, article |-> Null,
               size_cm |-> [width |-> Null, height |-> Null],
               material |-> Null, color_sample |-> Null,
               hydro_insulation |-> Null, crackle_aging |-> Null],
   designer_wallpapers |->
              [enabled |-> FALSE, catalog_name |-> Null, article |-> Null,
               panel_size_cm |-> Null, panels_order_left_to_right |-> Null,
               production_type |-> Null,
               color_sample |-> [required |-> Null,
                                 agreed_without_sample |-> Null],
               mirror |-> Null],
   background_wallpapers |->
              [enabled |-> FALSE, catalog_name |-> Null, article |-> Null,
               material_type |-> Null,
               size_cm |-> [width |-> Null, height |-> Null],
               color_sample |-> [required |-> Null,
                                 agreed_without_sample |-> Null]],
   paintings |-> [enabled |-> FALSE, article |-> Null,
               canvas_total_size_cm |-> [width |-> Null, height |-> Null],
               visible_image_size_cm |-> [width |-> Null, height |-> Null]],
   delivery |-> [needed |-> Null, type |-> Null, address |-> Null,
               carrier |-> Null, crate |-> Null],
   comment |-> [text |-> Null, photos |-> <<>>, documents |-> <<>>,
               total_size |-> 0]]

\* The session data holds no "order" key (before /start, after state.clear()).
NoOrder == [cleared |-> TRUE]

\* The session data holds no step under the key (current_step, resume_step).
NoStep == [none |-> TRUE]

\* The customer's "@username (id N)" label.
telegram_label == "@client (id 1)"

\* ------------------------------------------------------------------ summary
\* Python truthiness of an optional string.
Truthy(v) == v # Null /\ v # ""

safe_value(value) ==
  CASE value = Null -> "-"
    [] value = "True" -> "Da"
    [] value = "False" -> "Net"
    [] value = "" -> "-"
    [] OTHER -> value

Line(label, value) == <<label, value>>

Blank == <<"", "">>

LineIf(cond, label, value) == IF cond THEN <<Line(label, value)>> ELSE <<>>

\* Client lines that begin with the Telegram handle, as format_summary, the
\* managers' version of the summary, writes them.
ClientLines_with_telegram(c) ==
  <<Line("Telegram", c.telegram), Line("Yurlico", safe_value(c.legal_entity)),
    Blank>>

ClientLines(c) ==
  LET ls == LineIf(Truthy(c.legal_entity), "Yurlico", c.legal_entity)
            \o LineIf(Truthy(c.city), "Gorod", c.city)
            \o LineIf(Truthy(c.phone), "Telefon", c.phone)
            \o LineIf(Truthy(c.email), "Email", c.email)
            \o LineIf(Truthy(c.region), "Region dostavki", c.region)
            \o LineIf(Truthy(c.manager_name), "Menedzher", c.manager_name)
  IN  IF ls # <<>> THEN ls \o <<Blank>> ELSE ls

\* A fresco section that is written whatever the enabled flag says.
FreskiLines_always(f) == <<Line("FRESKI", ""), Blank>>

FreskiLines(f) ==
  IF f.enabled
  THEN <<Line("FRESKI", "")>>
       \o LineIf(Truthy(f.catalog_name), "Katalog", safe_value(f.catalog_name))
       \o LineIf(Truthy(f.article), "Artikul", safe_value(f.article))
       \o LineIf(Truthy(f.size_cm.width), "Shirina, sm", safe_value(f.size_cm.width))
       \o LineIf(Truthy(f.size_cm.height), "Vysota, sm", safe_value(f.size_cm.height))
       \o LineIf(Truthy(f.material), "Material", safe_value(f.material))
       \o LineIf(f.color_sample # Null, "Cvetoproba", safe_value(f.color_sample))
       \o LineIf(f.hydro_insulation # Null, "Gidroizolyaciya",
                 safe_value(f.hydro_insulation))
       \o LineIf(f.crackle_aging # Null, "Starenie", safe_value(f.crackle_aging))
       \o <<Blank>>
  ELSE <<>>

DesignerLines(d) ==
  IF d.enabled
  THEN <<Line("DIZAINERSKIE OBOI", "")>>
       \o LineIf(Truthy(d.catalog_name), "Katalog", safe_value(d.catalog_name))
       \o LineIf(Truthy(d.article), "Artikul", safe_value(d.article))
       \o <<Line("Material", "Velur")>>
       \o LineIf(Truthy(d.panel_size_cm), "Razmer paneli",
                 safe_value(d.panel_size_cm))
       \o LineIf(Truthy(d.panels_order_left_to_right), "Poryadok panelei",
                 safe_value(d.panels_order_left_to_right))
       \o LineIf(Truthy(d.production_type), "Tip proizvodstva",
                 safe_value(d.production_type))
       \o LineIf(d.color_sample.required # Null, "Cvetoproba nuzhna",
                 safe_value(d.color_sample.required))
       \o LineIf(d.mirror # Null, "Otzerkalit", safe_value(d.mirror))
       \o <<Blank>>
  ELSE <<>>

BackgroundLines(b) ==
  IF b.enabled
  THEN <<Line("FONOVYE OBOI", "")>>
       \o LineIf(Truthy(b.catalog_name), "Katalog", safe_value(b.catalog_name))
       \o LineIf(Truthy(b.article), "Artikul", safe_value(b.article))
       \o LineIf(Truthy(b.material_type), "Material", safe_value(b.material_type))
       \o LineIf(Truthy(b.size_cm.width), "Shirina, sm", safe_value(b.size_cm.width))
       \o LineIf(Truthy(b.size_cm.height), "Vysota, sm", safe_value(b.size_cm.height))
       \o LineIf(b.color_sample.required # Null, "Cvetoproba nuzhna",
                 safe_value(b.color_sample.required))
       \o <<Blank>>
  ELSE <<>>

PaintingsLines(p) ==
  LET cs == p.canvas_total_size_cm
      vs == p.visible_image_size_cm
  IN  IF p.enabled
      THEN <<Line("KARTINY", ""), Line("Material", "Italyanskii holst"),
             Line("Maks. razmer, sm", "450 x 140")>>
           \o LineIf(Truthy(p.article), "Artikul", safe_value(p.article))
           \o (IF Truthy(cs.width) \/ Truthy(cs.height)
               THEN <<Line("Polnyi razmer holsta, sm", "")>>
                    \o LineIf(Truthy(cs.width), "  Shirina", safe_value(cs.width))
                    \o LineIf(Truthy(cs.height), "  Vysota", safe_value(cs.height))
               ELSE <<>>)
           \o (IF Truthy(vs.width) \/ Truthy(vs.height)
               THEN <<Line("Vidimyi razmer izobrazheniya, sm", "")>>
                    \o LineIf(Truthy(vs.width), "  Shirina", safe_value(vs.width))
                    \o LineIf(Truthy(vs.height), "  Vysota", safe_value(vs.height))
               ELSE <<>>)
           \o <<Blank>>
      ELSE <<>>

DeliveryLines(d) ==
  IF d.needed # Null
  THEN <<Line("DOSTAVKA", ""), Line("Nuzhna", safe_value(d.needed)),
         Line("Tip", safe_value(d.type))>>
       \o LineIf(Truthy(d.address), "Adres", safe_value(d.address))
       \o <<Line("TK/Samovyvoz", safe_value(d.carrier)),
            Line("Obreshetka", safe_value(d.crate)), Blank>>
  ELSE <<>>

CommentLines(c) ==
  IF Truthy(c.text) \/ c.photos # <<>> \/ c.documents # <<>>
  THEN <<Line("KOMMENTARII", "")>>
       \o LineIf(Truthy(c.text), "Tekst", safe_value(c.text))
       \o LineIf(Len(c.photos) > 0, "Foto", ToString(Len(c.photos)))
       \o LineIf(Len(c.documents) > 0, "Dokumenty", ToString(Len(c.documents)))
       \o <<Blank>>
  ELSE <<>>

format_user_summary(o) ==
  ClientLines(o.client) \o FreskiLines(o.freski)
  \o DesignerLines(o.designer_wallpapers)
  \o BackgroundLines(o.background_wallpapers)
  \o PaintingsLines(o.paintings) \o DeliveryLines(o.delivery)
  \o CommentLines(o.comment)

comment_prompt(o) ==
  <<"Kommentarii. Dobavleno failov:",
    ToString(Len(o.comment.photos) + Len(o.comment.documents)),
    ToString(Len(o.comment.photos)), ToString(Len(o.comment.documents))>>

\* ------------------------------------------------------------- directories
ManagerInfo(name, email, chat_id) ==
  [name |-> name, email |-> email, chat_id |-> chat_id]

\* managers.json contents the conversation may start with: a region with no
\* contact, one with a single contact, and multi-contact regions whose
\* contacts lack an email or share one.  A directory is the ordered list of
\* (region, managers) that load_managers returns.
Directories(P) ==
  (IF P = "empty" THEN {<<>>} ELSE {}) \cup
  IF P # "regions"
  THEN { << [region |-> "Centr",
             managers |-> <<ManagerInfo("Anna", "anna@x", "None")>>],
            [region |-> "Sever", managers |-> <<>>],
            [region |-> "Yug",
             managers |-> <<ManagerInfo("Boris", "None", "101"),
                            ManagerInfo("Vera", "vera@x", "None")>>] >> }
  ELSE
  { << [region |-> "Centr",
        managers |-> <<ManagerInfo("Anna", "anna@x", "None")>>],
       [region |-> "Sever", managers |-> <<>>],
       [region |-> "Yug",
        managers |-> <<ManagerInfo("Boris", "None", "101"),
                       ManagerInfo("Vera", "vera@x", "None")>>] >>,
    << [region |-> "Vostok",
        managers |-> <<ManagerInfo("Gleb", "team@x", "None"),
                       ManagerInfo("Dina", "team@x", "None"),
                       ManagerInfo("None", "None", "102")>>],
       [region |-> "Zapad",
        managers |-> <<ManagerInfo("None", "None", "103")>>] >> }

\* list(current_managers.keys())
regions_list(m) == [i \in 1..Len(m) |-> m[i].region]

\* A lookup that returns the first contact only of a region that lists several.
region_managers_first(m, region) ==
  LET ms == IF \E i \in 1..Len(m) : m[i].region = region
            THEN m[CHOOSE i \in 1..Len(m) : m[i].region = region].managers
            ELSE <<>>
  IN  IF Len(ms) > 1 THEN <<ms[1]>> ELSE ms

\* current_managers.get(region, [])
region_managers(m, region) ==
  IF \E i \in 1..Len(m) : m[i].region = region
  THEN m[CHOOSE i \in 1..Len(m) : m[i].region = region].managers
  ELSE <<>>

\* a or b, for optional strings
Or(a, b) == IF Truthy(a) THEN a ELSE b

\* ------------------------------------------------------------- input sets
\* Each specification explores one family of conversations P in depth and
\* keeps the customer's other choices to one representative per branch.  The
\* comment is varied in the orders that include paintings, the delivery and
\* the region in those that include designer wallpapers; the other orders
\* take the shortest way to finalization.
TextInputs == {"t"}
\* Typed comments: a plain text, skip synonyms in other letter cases (one
\* with a trailing blank), and a text that only begins like a synonym.
CommentTexts(P) ==
  IF P = "delivery" THEN {"t", "Skip", "PROPUSTIT ", "propusk", "skipper"}
  ELSE {"t"}
\* Attachment sizes in bytes: none given, at the per-file ceiling, one byte over.
FileSizes(P) ==
  IF P = "files" THEN {0, PerFileLimit, PerFileLimit + 1} ELSE {PerFileLimit}
\* Captions of comment files: none, or a text (varied with the typed comments).
Captions(P) == IF P = "delivery" THEN {Null, "c"} ELSE {Null}
\* Attachments accepted into one order.
FilesAllowed(P) == IF P = "files" THEN MaxFiles ELSE 1
\* Back presses in one order.
BackAllowed(P) ==
  IF P = "flow" THEN MaxNav ELSE IF P = "heights" THEN MaxBacks ELSE 1
\* Fresco and background catalogs, background materials pressed.
BranchIdx(P, n) == IF P \in {"materials", "heights"} THEN 0..(n - 1) ELSE {0}
\* Indexes pressed on lists whose items lead to the same next step.
FirstOnly == {0}
\* Fresco materials pressed: all, or one of each branch of freski_material.
MaterialIdx(P) ==
  IF P = "materials" THEN 0..(Len(freski_materials) - 1) ELSE {0, 5, 8, 11}
\* Height buttons pressed.
HeightIdx(P) == IF P \in {"materials", "heights"} THEN 0..6 ELSE {0}
\* Carriers pressed: all, or one that skips the crate question and one that asks it.
CarrierIdx(P) ==
  IF P = "delivery" THEN 0..(Len(delivery_carriers) - 1) ELSE {1, 2}
\* Answers to yes/no questions that lead to the same next step either way.
YesNoOf(P, rich) == IF P = rich THEN {"yes", "no"} ELSE {"yes"}

\* ------------------------------------------------------------------- steps
\* The step render_step records; its order_snapshot, a deep copy that nothing
\* reads, is left out.
Step(st, o, prompt, reply_markup, include_nav) ==
  [state_name |-> st, prompt |-> prompt, reply_markup |-> reply_markup,
   include_nav |-> include_nav]

\* An order message that shows only the navigation row in back-review mode.
RenderView_review(o, prompt, reply_markup, include_nav, bm) ==
  [summary |-> format_user_summary(o), prompt |-> prompt,
   kb |-> IF bm THEN nav_kb(TRUE, bm)
          ELSE IF include_nav THEN merge_kb(reply_markup, nav_kb(TRUE, bm))
          ELSE reply_markup]

\* The order message as render_step writes it.
RenderView(o, prompt, reply_markup, include_nav, bm) ==
  [summary |-> format_user_summary(o), prompt |-> prompt,
   kb |-> IF include_nav THEN merge_kb(reply_markup, nav_kb(TRUE, bm))
          ELSE reply_markup]

\* No order message exists yet.
NoView == [summary |-> <<>>, prompt |-> <<>>, kb |-> <<>>]

Msg(kind, to, body, kb) == [kind |-> kind, to |-> to, body |-> body, kb |-> kb]

\* Every render of the conversation has returned.
Rendered == dispatcher.suspended = <<>>

\* A render_step awaiting its Telegram call: the step it will record, and
\* the id of the message it is sending (0 when it edits the remembered one).
Suspended(step, message_id) == [step |-> step, message_id |-> message_id]

\* The id of the next order message of the conversation: ids count the order
\* messages the conversation has created by message.answer.
NewMessageId ==
  LET ids == {order_message_id} \cup
             {dispatcher.suspended[i].message_id : i \in DOMAIN dispatcher.suspended}
  IN  1 + CHOOSE n \in ids : \A k \in ids : k <= n

\* render_step with the session's state st, order o and back_mode bm.  Its
\* Telegram call (edit_message_text, or answer for the first render) is where
\* the coroutine is suspended; update_data(current_step=...) follows once the
\* call has returned.  When the conversation's events are handled one at a
\* time the two halves are one step; when they are handled as tasks the
\* second half waits in dispatcher.suspended and other events of the
\* conversation may be handled first.
render_step(st, o, bm, prompt, reply_markup, include_nav) ==
  /\ view' = RenderView(o, prompt, reply_markup, include_nav, bm)
  /\ IF dispatcher.handle_as_tasks
     THEN /\ Rendered \/ dispatcher.ahead < MaxAhead
          /\ current_step' = current_step
          /\ order_message_id' = order_message_id
          /\ dispatcher' = [dispatcher EXCEPT
                              !.suspended =
                                 Append(@, Suspended(
                                   Step(st, o, prompt, reply_markup, include_nav),
                                   IF order_message_id # 0 THEN 0
                                   ELSE NewMessageId)),
                              !.ahead = IF Rendered THEN @ ELSE @ + 1]
     ELSE /\ current_step' = Step(st, o, prompt, reply_markup, include_nav)
          /\ order_message_id' =
                IF order_message_id # 0 THEN order_message_id ELSE NewMessageId
          /\ dispatcher' = dispatcher

\* The second half of a suspended render_step: the id of a message it has
\* sent is remembered, and current_step is written with the state pointer as
\* it is read then (await state.get_state()).  The Telegram calls of
\* different tasks return in any order.
resume_render ==
  /\ \E i \in DOMAIN dispatcher.suspended :
       LET r == dispatcher.suspended[i]
       IN  /\ order_message_id' =
                 IF r.message_id # 0 THEN r.message_id ELSE order_message_id
           /\ current_step' = [r.step EXCEPT !.state_name = state]
           /\ dispatcher' = [dispatcher EXCEPT !.suspended =
                               SubSeq(@, 1, i - 1) \o SubSeq(@, i + 1, Len(@))]
  /\ UNCHANGED <<state, order, history, resume_step, back_mode, view,
                 managers_map, pc, fin, outbox, nav_used, view_at_back, admin>>

\* push_current_step that starts the history again from the step being left.
push_current_step_fresh ==
  IF current_step = NoStep
  THEN [history |-> history, back_mode |-> back_mode, resume_step |-> resume_step]
  ELSE [history |-> <<current_step>>, back_mode |-> FALSE,
        resume_step |-> NoStep]

\* push_current_step that leaves back_mode and resume_step as they are.
push_current_step_keep ==
  IF current_step = NoStep
  THEN [history |-> history, back_mode |-> back_mode, resume_step |-> resume_step]
  ELSE [history |-> Append(history, current_step), back_mode |-> back_mode,
        resume_step |-> resume_step]

\* push_current_step that leaves the resume slot filled.
push_current_step_stale ==
  IF current_step = NoStep
  THEN [history |-> history, back_mode |-> back_mode, resume_step |-> resume_step]
  ELSE [history |-> Append(history, current_step), back_mode |-> FALSE,
        resume_step |-> resume_step]

\* history, back_mode and resume_step after push_current_step.
push_current_step ==
  IF current_step = NoStep
  THEN [history |-> history, back_mode |-> back_mode, resume_step |-> resume_step]
  ELSE [history |-> Append(history, current_step), back_mode |-> FALSE,
        resume_step |-> NoStep]

\* go_to_state that renders the next prompt before the answer is stored.
go_to_state_render_first(o, next_state, prompt, reply_markup, include_nav) ==
  /\ order' = o
  /\ history' = push_current_step.history
  /\ back_mode' = push_current_step.back_mode
  /\ resume_step' = push_current_step.resume_step
  /\ state' = next_state
  /\ render_step(next_state, order, push_current_step.back_mode, prompt,
                 reply_markup, include_nav)

\* A handler that stores order o and calls go_to_state.
go_to_state(o, next_state, prompt, reply_markup, include_nav) ==
  /\ order' = o
  /\ history' = push_current_step.history
  /\ back_mode' = push_current_step.back_mode
  /\ resume_step' = push_current_step.resume_step
  /\ state' = next_state
  /\ render_step(next_state, o, push_current_step.back_mode, prompt,
                 reply_markup, include_nav)

\* The order message the customer pressed Back on, while nothing else has
\* been handled since.
NotAfterBack == view_at_back' = NoView

\* The handler left the directory, the finalization and the outbox alone.
FlowFrame ==
  /\ UNCHANGED <<managers_map, admin, pc, fin, outbox, nav_used>>
  /\ NotAfterBack

\* The dispatcher hands the conversation's next event to a handler.
Idle == pc = "idle"

\* The orders whose delivery and region are varied, and those whose comment is.
TailVaried == order.designer_wallpapers.enabled

CommentVaried == order.paintings.enabled

\* The customer presses a button that the order message shows, once the
\* message has arrived.
Pressed(prefix, idx) == Idle /\ Rendered /\ HasButton(view.kb, prefix, idx)

\* The locals of finalize_order: the order it was handed, the delivery targets,
\* the comment files still to download, the downloaded attachments, the
\* managers still to be written to, and what each write came to.
NoFin ==
  [order |-> NoOrder, targets |-> <<>>, files |-> <<>>, attachments |-> <<>>,
   todo |-> <<>>, outcomes |-> <<>>, manager_errors |-> <<>>,
   successful_sends |-> 0]

\* The administrator's session before /admin: no FSM state, no data, no
\* keyboard.
NoAdmin ==
  [state |-> Null, admin_edit_region |-> Null, admin_edit_manager_index |-> -1,
   admin_new_name |-> Null, kb |-> {}, answer |-> Null, edits |-> 0]

InitOf(P) ==
  /\ state = Null
  /\ order = NoOrder
  /\ history = <<>>
  /\ current_step = NoStep
  /\ resume_step = NoStep
  /\ back_mode = FALSE
  /\ order_message_id = 0
  /\ view = NoView
  /\ managers_map \in Directories(P)
  /\ pc = "idle"
  /\ fin = NoFin
  /\ outbox = <<>>
  /\ nav_used = 0
  /\ view_at_back = NoView
  /\ admin = NoAdmin
  /\ dispatcher = [handle_as_tasks |-> P = "tasks", suspended |-> <<>>,
                   ahead |-> 0]

\* render_step of the section menu after state.clear(): no message id is
\* remembered, so the menu is sent as a new message.
FirstRender ==
  LET step == Step("main_menu", order', <<"Vyberite razdel:">>, main_menu_kb, FALSE)
  IN  /\ view' = RenderView(order', <<"Vyberite razdel:">>, main_menu_kb,
                            FALSE, FALSE)
      /\ IF dispatcher.handle_as_tasks
         THEN /\ current_step' = NoStep
              /\ order_message_id' = 0
              /\ dispatcher' = [dispatcher EXCEPT
                                  !.suspended = <<Suspended(step, 1)>>]
         ELSE /\ current_step' = step
              /\ order_message_id' = 1
              /\ dispatcher' = dispatcher

\* A new order that takes up the order finalized last, where there is one.
BeginOrder_resume ==
  /\ state' = "main_menu"
  /\ order' = IF fin.order = NoOrder THEN build_empty_order(telegram_label)
               ELSE fin.order
  /\ history' = <<>>
  /\ resume_step' = NoStep
  /\ back_mode' = FALSE
  /\ FirstRender
  /\ outbox' = <<Msg("start_text", "client", <<>>, NoKb),
                 Msg("order_message", "client", view'.summary, view'.kb)>>
  /\ nav_used' = 0
  /\ NotAfterBack
  /\ fin' = NoFin
  /\ UNCHANGED <<managers_map, admin, pc>>

\* state.clear(), a fresh order, the start text and the section menu.
BeginOrder ==
  /\ state' = "main_menu"
  /\ order' = build_empty_order(telegram_label)
  /\ history' = <<>>
  /\ resume_step' = NoStep
  /\ back_mode' = FALSE
  /\ FirstRender
  /\ outbox' = <<Msg("start_text", "client", <<>>, NoKb),
                 Msg("order_message", "client", view'.summary, view'.kb)>>
  /\ nav_used' = 0
  /\ NotAfterBack
  /\ fin' = NoFin
  /\ UNCHANGED <<managers_map, admin, pc>>

\* New orders begin while the administrator's editor is closed and no
\* render is outstanding.
start ==
  /\ Idle
  /\ Rendered
  /\ admin = NoAdmin
  /\ BeginOrder

new_order ==
  /\ Idle
  /\ Rendered
  /\ admin = NoAdmin
  /\ outbox # <<>>
  /\ HasButton(outbox[Len(outbox)].kb, "new_order", 0)
  /\ BeginOrder

\* The customer presses a section of the menu.  When the conversation's
\* events are handled as tasks the press can be handled while the message
\* that carries the menu is still being sent.
MenuPressed(data) ==
  /\ Idle
  /\ HasButton(view.kb, data, 0)
  /\ Rendered \/ dispatcher.handle_as_tasks

main_menu ==
  /\ state = "main_menu"
  /\ \/ /\ MenuPressed("menu:freski")
        /\ go_to_state([order EXCEPT !.freski.enabled = TRUE], "freski_catalog",
                       <<"freski_text", "Katalog:">>,
                       list_kb(freski_catalogs, "freski_catalog"), TRUE)
     \/ /\ MenuPressed("menu:designer")
        /\ go_to_state([order EXCEPT !.designer_wallpapers.enabled = TRUE],
                       "designer_catalog", <<"designer_text", "Katalog:">>,
                       list_kb(designer_catalogs, "catalog"), TRUE)
     \/ /\ MenuPressed("menu:background")
        /\ go_to_state([order EXCEPT !.background_wallpapers.enabled = TRUE],
                       "background_material",
                       <<"background_text", "Faktura (velure/colore):">>,
                       list_kb(background_materials, "bg_material"), TRUE)
     \/ /\ MenuPressed("menu:paintings")
        /\ go_to_state([order EXCEPT !.paintings.enabled = TRUE],
                       "paintings_article", <<"paintings_text", "Artikul:">>,
                       NoKb, TRUE)
  /\ FlowFrame

\* ------------------------------------------------------------------ freski
\* A fresco gate whose answer no leaves the order as it is.
ask_freski_keep ==
  /\ state = "ask_freski"
  /\ \/ /\ Pressed("yes", 0)
        /\ go_to_state([order EXCEPT !.freski.enabled = TRUE], "freski_catalog",
                       <<"Hotite freski? Da", "Katalog:">>,
                       list_kb(freski_catalogs, "freski_catalog"), TRUE)
     \/ /\ Pressed("no", 0)
        /\ go_to_state(order, "ask_designer_wallpapers",
                       <<"Hotite freski? Net", "Hotite dizainerskie oboi?">>,
                       yes_no_kb, TRUE)
  /\ FlowFrame

ask_freski ==
  /\ state = "ask_freski"
  /\ \/ /\ Pressed("yes", 0)
        /\ go_to_state([order EXCEPT !.freski.enabled = TRUE], "freski_catalog",
                       <<"Hotite freski? Da", "Katalog:">>,
                       list_kb(freski_catalogs, "freski_catalog"), TRUE)
     \/ /\ Pressed("no", 0)
        /\ go_to_state([order EXCEPT !.freski.enabled = FALSE],
                       "ask_designer_wallpapers",
                       <<"Hotite freski? Net", "Hotite dizainerskie oboi?">>,
                       yes_no_kb, TRUE)
  /\ FlowFrame

freski_catalog(P) ==
  /\ state = "freski_catalog"
  /\ \E idx \in BranchIdx(P, Len(freski_catalogs)) :
       /\ Pressed("freski_catalog", idx)
       /\ IF freski_catalogs[idx + 1] = "Biblioteka Affresco"
          THEN go_to_state(
                 [order EXCEPT !.freski.catalog_name = freski_catalogs[idx + 1]],
                 "freski_library_catalog", <<"Biblioteka Affresco", "Katalog:">>,
                 list_kb(freski_library_catalogs, "freski_library_catalog"), TRUE)
          ELSE go_to_state(
                 [order EXCEPT !.freski.catalog_name = "Individualnaya otrisovka"],
                 "freski_article", <<"Individualnaya otrisovka", "Artikul:">>,
                 NoKb, TRUE)
  /\ FlowFrame

freski_library_catalog ==
  /\ state = "freski_library_catalog"
  /\ \E idx \in FirstOnly :
       /\ Pressed("freski_library_catalog", idx)
       /\ go_to_state(
            [order EXCEPT !.freski.catalog_name = freski_library_catalogs[idx + 1]],
            "freski_article",
            <<"Katalog:", freski_library_catalogs[idx + 1], "Artikul:">>,
            NoKb, TRUE)
  /\ FlowFrame

freski_article ==
  /\ Idle
  /\ state = "freski_article"
  /\ \E text \in TextInputs :
       go_to_state([order EXCEPT !.freski.article = text], "freski_width",
                   <<"Shirina, sm:">>, NoKb, TRUE)
  /\ FlowFrame

freski_width ==
  /\ Idle
  /\ state = "freski_width"
  /\ \E text \in TextInputs :
       go_to_state([order EXCEPT !.freski.size_cm.width = text], "freski_height",
                   <<"Vysota, sm:">>, NoKb, TRUE)
  /\ FlowFrame

freski_height ==
  /\ Idle
  /\ state = "freski_height"
  /\ \E text \in TextInputs :
       go_to_state([order EXCEPT !.freski.size_cm.height = text],
                   "freski_material", <<"Material:">>,
                   list_kb(freski_materials, "freski_material"), TRUE)
  /\ FlowFrame

\* A table that sends every material to the generic color-proof question.
FreskiMaterialBranch_generic(material, o) ==
  [next |-> "freski_color_sample", preset |-> Null,
   prompt |-> <<"Material:", material, "Nuzhna cvetoproba?">>, kb |-> yes_no_kb]

\* A table that sends Kolore to the comment step without the preset.
FreskiMaterialBranch_no_preset(material, o) ==
  CASE material \in {"Sabbia", "Sabbia Fasad", "Pietra"} ->
         [next |-> "freski_humidity", preset |-> Null,
          prompt |-> <<"Material:", material, "Pomeshenie vlazhnoe?">>,
          kb |-> yes_no_kb]
    [] material = "Krakelur" ->
         [next |-> "freski_crackle_aging", preset |-> Null,
          prompt |-> <<"Krakelur vybran.", "Nuzhna srednyaya stepen stareniya?">>,
          kb |-> yes_no_kb]
    [] material \in {"Kolore", "Kolore Lait"} ->
         [next |-> "ask_comment", preset |-> Null,
          prompt |-> comment_prompt(o), kb |-> comment_kb]
    [] OTHER ->
         [next |-> "freski_color_sample", preset |-> Null,
          prompt |-> <<"Material:", material, "Nuzhna cvetoproba?">>,
          kb |-> yes_no_kb]

\* The branch freski_material takes for a material: the next state, the
\* color_sample preset (Null: none) and the prompt.
FreskiMaterialBranch(material, o) ==
  CASE material \in {"Sabbia", "Sabbia Fasad", "Pietra"} ->
         [next |-> "freski_humidity", preset |-> Null,
          prompt |-> <<"Material:", material, "Pomeshenie vlazhnoe?">>,
          kb |-> yes_no_kb]
    [] material = "Krakelur" ->
         [next |-> "freski_crackle_aging", preset |-> Null,
          prompt |-> <<"Krakelur vybran.", "Nuzhna srednyaya stepen stareniya?">>,
          kb |-> yes_no_kb]
    [] material \in {"Kolore", "Kolore Lait"} ->
         [next |-> "ask_comment", preset |-> "Da",
          prompt |-> comment_prompt(o), kb |-> comment_kb]
    [] OTHER ->
         [next |-> "freski_color_sample", preset |-> Null,
          prompt |-> <<"Material:", material, "Nuzhna cvetoproba?">>,
          kb |-> yes_no_kb]

freski_material(P) ==
  /\ state = "freski_material"
  /\ \E idx \in MaterialIdx(P) :
       /\ Pressed("freski_material", idx)
       /\ LET material == freski_materials[idx + 1]
              o1 == [order EXCEPT !.freski.material = material]
              br == FreskiMaterialBranch(material, o1)
              o2 == IF br.preset # Null
                    THEN [o1 EXCEPT !.freski.color_sample = br.preset]
                    ELSE o1
          IN  go_to_state(o2, br.next, br.prompt, br.kb, TRUE)
  /\ FlowFrame

\* "Da" if callback.data == "yes" else "Net"
DaNet(data) == IF data = "yes" THEN "Da" ELSE "Net"

freski_humidity(P) ==
  /\ state = "freski_humidity"
  /\ \E data \in YesNoOf(P, "materials") :
       /\ Pressed(data, 0)
       /\ go_to_state([order EXCEPT !.freski.hydro_insulation = DaNet(data)],
                      "freski_color_sample",
                      <<"Pomeshenie vlazhnoe:", DaNet(data), "Nuzhna cvetoproba?">>,
                      yes_no_kb, TRUE)
  /\ FlowFrame

\* An aging question that records the answer and leaves the material label.
freski_crackle_aging_label(P) ==
  /\ state = "freski_crackle_aging"
  /\ \E data \in YesNoOf(P, "materials") :
       /\ Pressed(data, 0)
       /\ go_to_state(
            [order EXCEPT !.freski.crackle_aging = DaNet(data)],
            "freski_color_sample", <<"Nuzhna cvetoproba?">>, yes_no_kb, TRUE)
  /\ FlowFrame

freski_crackle_aging(P) ==
  /\ state = "freski_crackle_aging"
  /\ \E data \in YesNoOf(P, "materials") :
       /\ Pressed(data, 0)
       /\ go_to_state(
            [order EXCEPT !.freski.material =
                             IF data = "yes" THEN "Krakelur srednyaya stepen"
                             ELSE "Krakelur bez stareniya",
                          !.freski.crackle_aging = DaNet(data)],
            "freski_color_sample", <<"Nuzhna cvetoproba?">>, yes_no_kb, TRUE)
  /\ FlowFrame

freski_color_sample(P) ==
  /\ state = "freski_color_sample"
  /\ \E data \in YesNoOf(P, "materials") :
       /\ Pressed(data, 0)
       /\ LET o1 == [order EXCEPT !.freski.color_sample = DaNet(data)]
          IN  go_to_state(o1, "ask_comment", comment_prompt(o1), comment_kb, TRUE)
  /\ FlowFrame

\* ------------------------------------------------------- designer wallpapers
ask_designer_wallpapers ==
  /\ state = "ask_designer_wallpapers"
  /\ \/ /\ Pressed("yes", 0)
        /\ go_to_state([order EXCEPT !.designer_wallpapers.enabled = TRUE],
                       "designer_catalog",
                       <<"Hotite dizainerskie oboi? Da", "Katalog:">>,
                       list_kb(designer_catalogs, "catalog"), TRUE)
     \/ /\ Pressed("no", 0)
        /\ go_to_state([order EXCEPT !.designer_wallpapers.enabled = FALSE],
                       "ask_background_wallpapers",
                       <<"Hotite dizainerskie oboi? Net", "Hotite fonovye oboi?">>,
                       yes_no_kb, TRUE)
  /\ FlowFrame

designer_catalog ==
  /\ state = "designer_catalog"
  /\ \E idx \in FirstOnly :
       /\ Pressed("catalog", idx)
       /\ go_to_state(
            [order EXCEPT !.designer_wallpapers.catalog_name =
                             designer_catalogs[idx + 1]],
            "designer_article", <<"Artikul:">>, NoKb, TRUE)
  /\ FlowFrame

designer_article ==
  /\ Idle
  /\ state = "designer_article"
  /\ \E text \in TextInputs :
       go_to_state([order EXCEPT !.designer_wallpapers.article = text],
                   "designer_panel_size", <<"Material: Velur.", "Razmer paneli:">>,
                   list_kb(designer_panel_sizes, "panel_size"), TRUE)
  /\ FlowFrame

designer_panel_size ==
  /\ state = "designer_panel_size"
  /\ \E idx \in FirstOnly :
       /\ Pressed("panel_size", idx)
       /\ go_to_state(
            [order EXCEPT !.designer_wallpapers.panel_size_cm =
                             designer_panel_sizes[idx + 1]],
            "designer_panel_order", <<"Poryadok panelei sleva napravo:">>,
            NoKb, TRUE)
  /\ FlowFrame

designer_panel_order ==
  /\ Idle
  /\ state = "designer_panel_order"
  /\ \E text \in TextInputs :
       go_to_state(
         [order EXCEPT !.designer_wallpapers.panels_order_left_to_right = text],
         "designer_production_type", <<"Tip proizvodstva:">>,
         list_kb(production_types, "production_type"), TRUE)
  /\ FlowFrame

designer_production_type ==
  /\ state = "designer_production_type"
  /\ \E idx \in FirstOnly :
       /\ Pressed("production_type", idx)
       /\ go_to_state(
            [order EXCEPT !.designer_wallpapers.production_type =
                             production_types[idx + 1]],
            "designer_color_sample", <<"Nuzhna cvetoproba?">>, yes_no_kb, TRUE)
  /\ FlowFrame

\* callback.data == "yes", a Python bool
IsYes(data) == IF data = "yes" THEN "True" ELSE "False"

designer_color_sample(P) ==
  /\ state = "designer_color_sample"
  /\ \E data \in YesNoOf(P, "designer") :
       /\ Pressed(data, 0)
       /\ go_to_state(
            [order EXCEPT !.designer_wallpapers.color_sample.required = IsYes(data)],
            "designer_mirror", <<"Otzerkalit?">>, yes_no_kb, TRUE)
  /\ FlowFrame

designer_mirror(P) ==
  /\ state = "designer_mirror"
  /\ \E data \in YesNoOf(P, "designer") :
       /\ Pressed(data, 0)
       /\ LET o1 == [order EXCEPT !.designer_wallpapers.mirror = DaNet(data)]
          IN  go_to_state(o1, "ask_comment", comment_prompt(o1), comment_kb, TRUE)
  /\ FlowFrame

\* ----------------------------------------------------- background wallpapers
ask_background_wallpapers ==
  /\ state = "ask_background_wallpapers"
  /\ \/ /\ Pressed("yes", 0)
        /\ go_to_state([order EXCEPT !.background_wallpapers.enabled = TRUE],
                       "background_material",
                       <<"Hotite fonovye oboi? Da", "Faktura (velure/colore):">>,
                       list_kb(background_materials, "bg_material"), TRUE)
     \/ /\ Pressed("no", 0)
        /\ go_to_state([order EXCEPT !.background_wallpapers.enabled = FALSE],
                       "ask_paintings",
                       <<"Hotite fonovye oboi? Net", "Hotite kartiny?">>,
                       yes_no_kb, TRUE)
  /\ FlowFrame

background_material(P) ==
  /\ state = "background_material"
  /\ \E idx \in BranchIdx(P, Len(background_materials)) :
       /\ Pressed("bg_material", idx)
       /\ go_to_state(
            [order EXCEPT !.background_wallpapers.material_type =
                             background_materials[idx + 1]],
            "background_catalog", <<"Katalog:">>,
            list_kb(background_catalogs, "bg_catalog"), TRUE)
  /\ FlowFrame

background_catalog ==
  /\ state = "background_catalog"
  /\ \E idx \in FirstOnly :
       /\ Pressed("bg_catalog", idx)
       /\ go_to_state(
            [order EXCEPT !.background_wallpapers.catalog_name =
                             background_catalogs[idx + 1]],
            "background_article", <<"Artikul:">>, NoKb, TRUE)
  /\ FlowFrame

\* The velour heights whatever the material.
heights_for_velour(material) == background_heights_velour

\* config.background_heights_velour if material == "Velur" else ..._colore
heights_for(material) ==
  IF material = "Velur" THEN background_heights_velour
  ELSE background_heights_colore

\* [str(h) for h in heights]
heights_str(heights) == [i \in 1..Len(heights) |-> ToString(heights[i])]

background_article ==
  /\ Idle
  /\ state = "background_article"
  /\ \E text \in TextInputs :
       LET o1 == [order EXCEPT !.background_wallpapers.article = text]
           heights == heights_for(o1.background_wallpapers.material_type)
       IN  go_to_state(o1, "background_height", <<"Vysota, sm:">>,
                       list_kb(heights_str(heights), "bg_height"), TRUE)
  /\ FlowFrame

\* heights[idx] raises IndexError, before anything is stored, when the pressed
\* button lies beyond the list of the recorded material.
background_height(P) ==
  /\ state = "background_height"
  /\ \E idx \in HeightIdx(P) :
       /\ Pressed("bg_height", idx)
       /\ LET heights == heights_for(order.background_wallpapers.material_type)
          IN  /\ idx < Len(heights)
              /\ go_to_state(
                   [order EXCEPT !.background_wallpapers.size_cm.height =
                                    ToString(heights[idx + 1])],
                   "background_width", <<"Shirina, sm (minimum 100):">>,
                   NoKb, TRUE)
  /\ FlowFrame

background_width ==
  /\ Idle
  /\ state = "background_width"
  /\ \E text \in TextInputs :
       go_to_state([order EXCEPT !.background_wallpapers.size_cm.width = text],
                   "background_color_sample", <<"Nuzhna cvetoproba?">>,
                   yes_no_kb, TRUE)
  /\ FlowFrame

background_color_sample(P) ==
  /\ state = "background_color_sample"
  /\ \E data \in YesNoOf(P, "materials") :
       /\ Pressed(data, 0)
       /\ LET o1 == [order EXCEPT
                       !.background_wallpapers.color_sample.required = IsYes(data)]
          IN  go_to_state(o1, "ask_comment", comment_prompt(o1), comment_kb, TRUE)
  /\ FlowFrame

\* ----------------------------------------------------------------- paintings
ask_paintings ==
  /\ state = "ask_paintings"
  /\ \/ /\ Pressed("yes", 0)
        /\ go_to_state([order EXCEPT !.paintings.enabled = TRUE],
                       "paintings_article", <<"Hotite kartiny? Da", "Artikul:">>,
                       NoKb, TRUE)
     \/ /\ Pressed("no", 0)
        /\ LET o1 == [order EXCEPT !.paintings.enabled = FALSE]
           IN  go_to_state(o1, "ask_comment", comment_prompt(o1), comment_kb, TRUE)
  /\ FlowFrame

paintings_article ==
  /\ Idle
  /\ state = "paintings_article"
  /\ \E text \in TextInputs :
       go_to_state([order EXCEPT !.paintings.article = text],
                   "paintings_canvas_width",
                   <<"Polnyi razmer holsta. Shirina, sm:">>, NoKb, TRUE)
  /\ FlowFrame

paintings_canvas_width ==
  /\ Idle
  /\ state = "paintings_canvas_width"
  /\ \E text \in TextInputs :
       go_to_state([order EXCEPT !.paintings.canvas_total_size_cm.width = text],
                   "paintings_canvas_height",
                   <<"Polnyi razmer holsta. Vysota, sm:">>, NoKb, TRUE)
  /\ FlowFrame

paintings_canvas_height ==
  /\ Idle
  /\ state = "paintings_canvas_height"
  /\ \E text \in TextInputs :
       go_to_state([order EXCEPT !.paintings.canvas_total_size_cm.height = text],
                   "paintings_visible_width",
                   <<"Vidimyi razmer izobrazheniya. Shirina, sm:">>, NoKb, TRUE)
  /\ FlowFrame

paintings_visible_width ==
  /\ Idle
  /\ state = "paintings_visible_width"
  /\ \E text \in TextInputs :
       go_to_state([order EXCEPT !.paintings.visible_image_size_cm.width = text],
                   "paintings_visible_height",
                   <<"Vidimyi razmer izobrazheniya. Vysota, sm:">>, NoKb, TRUE)
  /\ FlowFrame

paintings_visible_height ==
  /\ Idle
  /\ state = "paintings_visible_height"
  /\ \E text \in TextInputs :
       LET o1 == [order EXCEPT !.paintings.visible_image_size_cm.height = text]
       IN  go_to_state(o1, "ask_comment", comment_prompt(o1), comment_kb, TRUE)
  /\ FlowFrame

\* ------------------------------------------------------------------ comment
\* render_step without a state change: the same step with another prompt.
Rerender(o, prompt, reply_markup) ==
  /\ order' = o
  /\ render_step(state, o, back_mode, prompt, reply_markup, TRUE)
  /\ UNCHANGED <<state, history, back_mode, resume_step>>

FilesIn(o) == Len(o.comment.photos) + Len(o.comment.documents)

\* In the "files" family the customer leaves the comment step with one file
\* at most; the longer comments are explored at the comment step.
LeaveGate(P) == P # "files" \/ FilesIn(order) <= 1

ask_comment_skip(P) ==
  /\ state = "ask_comment"
  /\ CommentVaried
  /\ LeaveGate(P)
  /\ Pressed("comment:skip", 0)
  /\ go_to_state([order EXCEPT !.comment = [text |-> Null, photos |-> <<>>,
                                            documents |-> <<>>, total_size |-> 0]],
                 "ask_delivery_needed", <<"Dostavka nuzhna?">>, yes_no_kb, TRUE)
  /\ FlowFrame

ask_comment_done(P) ==
  /\ state = "ask_comment"
  /\ LeaveGate(P)
  /\ Pressed("comment:done", 0)
  /\ go_to_state(order, "ask_delivery_needed", <<"Dostavka nuzhna?">>,
                 yes_no_kb, TRUE)
  /\ FlowFrame

\* Outside the "files" family the customer adds at most one text or file.
CommentGate(P) ==
  /\ CommentVaried
  /\ P = "files" \/ order.comment = build_empty_order(Null).comment

\* Size checks without the per-file ceiling.
AttachmentVerdict_nolimit(comment, file_size) ==
  IF comment.total_size + file_size > TotalLimit THEN "over_total" ELSE "accept"

\* What the two size checks of a comment file come to.
AttachmentVerdict(comment, file_size) ==
  IF file_size # 0 /\ file_size > PerFileLimit THEN "too_big"
  ELSE IF comment.total_size + file_size > TotalLimit THEN "over_total"
  ELSE "accept"

\* A refusal that still counts the refused bytes.
RejectAttachment_counted(warning) ==
  Rerender([order EXCEPT !.comment.total_size = @ + 1],
           <<warning>> \o comment_prompt(order), comment_kb)

\* The file is refused: the same step again, under a warning.
RejectAttachment(warning) ==
  Rerender(order, <<warning>> \o comment_prompt(order), comment_kb)

\* comment["text"] once the caption of an accepted file is added.
WithCaption(text, caption) ==
  IF ~Truthy(caption) THEN text
  ELSE IF Truthy(text) THEN text \o "/" \o caption ELSE caption

\* ask_comment_photo for a photo of file_size bytes (0: no size given).
photo_message(P, file_size, caption) ==
  /\ Idle
  /\ state = "ask_comment"
  /\ CommentGate(P)
  /\ LET verdict == AttachmentVerdict(order.comment, file_size)
          o1 == [order EXCEPT
                   !.comment.text = WithCaption(@, caption),
                   !.comment.photos =
                      Append(@, [file_id |-> ToString(FilesIn(order) + 1),
                                 size |-> file_size]),
                   !.comment.total_size = @ + file_size]
     IN  CASE verdict = "too_big" -> RejectAttachment("Fail bolshe 5 MB.")
           [] verdict = "over_total" ->
                RejectAttachment("Prevyshen obshii limit 15 MB.")
           [] OTHER ->
                /\ FilesIn(order) < FilesAllowed(P)
                /\ Rerender(o1, <<"Foto dobavleno.">> \o comment_prompt(o1),
                            comment_kb)
  /\ FlowFrame

ask_comment_photo(P) ==
  \E file_size \in FileSizes(P), caption \in Captions(P) :
     photo_message(P, file_size, caption)

\* ask_comment_document for a document of file_size bytes.
document_message(P, file_size, caption) ==
  /\ Idle
  /\ state = "ask_comment"
  /\ CommentGate(P)
  /\ LET verdict == AttachmentVerdict(order.comment, file_size)
          o1 == [order EXCEPT
                   !.comment.text = WithCaption(@, caption),
                   !.comment.documents =
                      Append(@, [file_id |-> ToString(FilesIn(order) + 1),
                                 size |-> file_size, file_name |-> "doc.pdf"]),
                   !.comment.total_size = @ + file_size]
     IN  CASE verdict = "too_big" -> RejectAttachment("Fail bolshe 5 MB.")
           [] verdict = "over_total" ->
                RejectAttachment("Prevyshen obshii limit 15 MB.")
           [] OTHER ->
                /\ FilesIn(order) < FilesAllowed(P)
                /\ Rerender(o1, <<"Dokument dobavlen.">> \o comment_prompt(o1),
                            comment_kb)
  /\ FlowFrame

ask_comment_document(P) ==
  \E file_size \in FileSizes(P), caption \in Captions(P) :
     document_message(P, file_size, caption)

\* message.text.strip() and text.lower(), on the inputs explored.
Strip(text) ==
  CASE text = "PROPUSTIT " -> "PROPUSTIT"
    [] text = " +104" -> "+104"
    [] text = " " -> ""
    [] OTHER -> text

Lower(text) ==
  CASE text = "Skip" -> "skip"
    [] text = "PROPUSTIT" -> "propustit"
    [] OTHER -> text

\* ask_comment_text for one typed message.
comment_text_message(P, text) ==
  /\ Idle
  /\ state = "ask_comment"
  /\ CommentGate(P)
  /\ LET stripped == Strip(text)
         stored == IF Lower(stripped) \in {"propustit", "propusk", "skip"}
                   THEN Null ELSE stripped
         o1 == [order EXCEPT !.comment.text = stored]
     IN  Rerender(o1, comment_prompt(o1), comment_kb)
  /\ FlowFrame

ask_comment_text(P) ==
  \E text \in CommentTexts(P) : comment_text_message(P, text)

\* ----------------------------------------------------------------- delivery
ask_delivery_needed ==
  /\ state = "ask_delivery_needed"
  /\ \/ /\ Pressed("yes", 0)
        /\ TailVaried
        /\ go_to_state([order EXCEPT !.delivery.needed = "Da"], "delivery_type",
                       <<"Do terminala TK ili do adresa?">>,
                       list_kb(delivery_types, "delivery_type"), TRUE)
     \/ /\ Pressed("no", 0)
        /\ go_to_state([order EXCEPT !.delivery.needed = "Net"],
                       "ask_legal_entity", <<"Yurlico (IP/OOO):">>, NoKb, TRUE)
  /\ FlowFrame

delivery_type ==
  /\ state = "delivery_type"
  /\ \E idx \in 0..(Len(delivery_types) - 1) :
       /\ Pressed("delivery_type", idx)
       /\ LET o1 == [order EXCEPT !.delivery.type = delivery_types[idx + 1]]
          IN  IF delivery_types[idx + 1] = "Do adresa"
              THEN go_to_state(o1, "delivery_address", <<"Adres dostavki:">>,
                               NoKb, TRUE)
              ELSE go_to_state(o1, "delivery_carrier", <<"TK ili samovyvoz:">>,
                               list_kb(delivery_carriers, "delivery_carrier"), TRUE)
  /\ FlowFrame

delivery_address ==
  /\ Idle
  /\ state = "delivery_address"
  /\ \E text \in TextInputs :
       go_to_state([order EXCEPT !.delivery.address = text], "delivery_carrier",
                   <<"TK ili samovyvoz:">>,
                   list_kb(delivery_carriers, "delivery_carrier"), TRUE)
  /\ FlowFrame

\* A carrier choice that leaves the crate answer of the order as it is.
delivery_carrier_keep_crate(P) ==
  /\ state = "delivery_carrier"
  /\ \E idx \in CarrierIdx(P) :
       /\ Pressed("delivery_carrier", idx)
       /\ LET carrier == delivery_carriers[idx + 1]
              o1 == [order EXCEPT !.delivery.carrier = carrier]
          IN  IF carrier \in {"Kurerskaya Moskva", "Samovyvoz"}
              THEN go_to_state(o1, "ask_legal_entity",
                               <<"Yurlico (IP/OOO):">>, NoKb, TRUE)
              ELSE go_to_state(o1, "delivery_crate", <<"Obreshetka nuzhna?">>,
                               yes_no_kb, TRUE)
  /\ FlowFrame

delivery_carrier(P) ==
  /\ state = "delivery_carrier"
  /\ \E idx \in CarrierIdx(P) :
       /\ Pressed("delivery_carrier", idx)
       /\ LET carrier == delivery_carriers[idx + 1]
              o1 == [order EXCEPT !.delivery.carrier = carrier]
          IN  IF carrier \in {"Kurerskaya Moskva", "Samovyvoz"}
              THEN go_to_state([o1 EXCEPT !.delivery.crate = Null],
                               "ask_legal_entity", <<"Yurlico (IP/OOO):">>,
                               NoKb, TRUE)
              ELSE go_to_state(o1, "delivery_crate", <<"Obreshetka nuzhna?">>,
                               yes_no_kb, TRUE)
  /\ FlowFrame

delivery_crate(P) ==
  /\ state = "delivery_crate"
  /\ \E data \in YesNoOf(P, "delivery") :
       /\ Pressed(data, 0)
       /\ go_to_state([order EXCEPT !.delivery.crate = DaNet(data)],
                      "ask_legal_entity", <<"Yurlico (IP/OOO):">>, NoKb, TRUE)
  /\ FlowFrame

\* ------------------------------------------------------------------- client
ask_legal_entity ==
  /\ Idle
  /\ state = "ask_legal_entity"
  /\ \E text \in TextInputs :
       go_to_state([order EXCEPT !.client.legal_entity = text], "ask_city",
                   <<"Gorod:">>, NoKb, TRUE)
  /\ FlowFrame

ask_city ==
  /\ Idle
  /\ state = "ask_city"
  /\ \E text \in TextInputs :
       go_to_state([order EXCEPT !.client.city = text], "ask_phone",
                   <<"Telefon:">>, NoKb, TRUE)
  /\ FlowFrame

ask_phone ==
  /\ Idle
  /\ state = "ask_phone"
  /\ \E text \in TextInputs :
       go_to_state([order EXCEPT !.client.phone = text], "ask_email",
                   <<"Email:">>, NoKb, TRUE)
  /\ FlowFrame

ask_email ==
  /\ Idle
  /\ state = "ask_email"
  /\ \E text \in TextInputs :
       go_to_state([order EXCEPT !.client.email = text], "ask_region",
                   <<"Vyberite region:">>,
                   list_kb(regions_list(managers_map), "region"), TRUE)
  /\ FlowFrame

\* ------------------------------------------------------ region and contact
\* finalize_order(message, state, order) is entered.
finalize_order(o) ==
  /\ pc' = "finalize"
  /\ fin' = [NoFin EXCEPT !.order = o]

manager_labels(ms) ==
  [i \in 1..Len(ms) |-> Or(ms[i].name, Or(ms[i].email, "Menedzher"))]

\* regions_list[idx] raises IndexError, before anything is stored, when the
\* pressed button lies beyond the reloaded directory.
ask_region ==
  /\ state = "ask_region"
  /\ \E idx \in 0..(Len(view.kb) - 1) :
       /\ Pressed("region", idx)
       /\ TailVaried \/ idx = 0
       /\ idx < Len(managers_map)
       /\ LET region == regions_list(managers_map)[idx + 1]
              o1 == [order EXCEPT !.client.region = region]
              rm == region_managers(managers_map, region)
              manager == rm[1]
              o2 == [o1 EXCEPT !.client.manager_email = manager.email,
                               !.client.manager_name =
                                  Or(manager.name, manager.email)]
          IN  CASE Len(rm) = 1 ->
                     /\ order' = o2
                     /\ render_step(state, o2, back_mode,
                          <<"Region:", region, "Menedzher:",
                            Or(manager.name, Or(manager.email, manager.chat_id))>>,
                          NoKb, TRUE)
                     /\ finalize_order(o2)
                     /\ UNCHANGED <<state, history, back_mode, resume_step>>
                [] Len(rm) > 1 ->
                     /\ order' = o1
                     /\ state' = "ask_manager_choice"
                     /\ render_step("ask_manager_choice", o1, back_mode,
                          <<"Region:", region, "Vyberite menedzhera:">>,
                          list_kb(manager_labels(rm), "manager"), TRUE)
                     /\ UNCHANGED <<history, back_mode, resume_step, pc, fin>>
                [] OTHER ->
                     /\ order' = o1
                     /\ render_step(state, o1, back_mode, <<"Region:", region>>,
                                    NoKb, TRUE)
                     /\ finalize_order(o1)
                     /\ UNCHANGED <<state, history, back_mode, resume_step>>
  /\ UNCHANGED <<managers_map, admin, outbox, nav_used>>
  /\ NotAfterBack

ask_manager_choice ==
  /\ state = "ask_manager_choice"
  /\ \E idx \in 0..(Len(view.kb) - 1) :
       /\ Pressed("manager", idx)
       /\ LET pushed == push_current_step
              rm == region_managers(managers_map, order.client.region)
              manager == rm[idx + 1]
              o1 == [order EXCEPT !.client.manager_email = manager.email,
                                  !.client.manager_name =
                                     Or(manager.name, Or(manager.email, "Menedzher"))]
              not_found == Step("ask_manager_choice", order,
                                <<"Menedzher ne naiden.">>, NoKb, TRUE)
          IN  IF rm = <<>> \/ idx >= Len(rm)
              THEN /\ order' = order
                   /\ history' = Append(pushed.history, not_found)
                   /\ back_mode' = FALSE
                   /\ resume_step' = NoStep
                   /\ state' = "ask_region"
                   /\ render_step("ask_region", order, FALSE,
                                  <<"Vyberite region:">>,
                                  list_kb(regions_list(managers_map), "region"), TRUE)
                   /\ UNCHANGED <<pc, fin>>
              ELSE /\ order' = o1
                   /\ history' = pushed.history
                   /\ back_mode' = pushed.back_mode
                   /\ resume_step' = pushed.resume_step
                   /\ render_step(state, o1, pushed.back_mode,
                        <<"Menedzher:",
                          Or(manager.name, Or(manager.email, manager.chat_id))>>,
                        NoKb, TRUE)
                   /\ finalize_order(o1)
                   /\ UNCHANGED state
  /\ UNCHANGED <<managers_map, admin, outbox, nav_used>>
  /\ NotAfterBack

\* --------------------------------------------------------------- navigation
\* A navigation handler that rewrote the order from scratch.
order_after_nav_reset(step) == build_empty_order(telegram_label)

\* data["order"] after nav_back or nav_continue has shown a step: neither
\* handler writes it, and the order_snapshot of the step is not read.
order_after_nav(step) == order

\* The customer presses Back on the order message.  When the conversation's
\* events are handled as tasks the press can be handled while the render that
\* put the button there is still awaiting Telegram's reply.
BackPressed ==
  /\ Idle
  /\ HasButton(view.kb, "nav:back", 0)
  /\ Rendered \/ dispatcher.handle_as_tasks

\* A navigation handler that enters back-review mode before it looks at
\* what there is to navigate to.
NavIgnored_review(nothing) ==
  /\ Idle
  /\ nothing
  /\ back_mode' = TRUE
  /\ UNCHANGED <<state, order, history, current_step, resume_step,
                 order_message_id, view, managers_map, pc, fin, outbox,
                 nav_used, view_at_back, admin, dispatcher>>

\* The early return of nav_back (empty history) and of nav_continue (no
\* resume_step): callback.answer() and nothing else.  The button pressed may
\* be on any order message still in the chat; neither handler has a state
\* filter.
NavIgnored(nothing) ==
  /\ Idle
  /\ nothing
  /\ UNCHANGED vars

nav_back(P) ==
  \/ /\ BackPressed
     /\ history # <<>>
     /\ nav_used < BackAllowed(P)
     /\ LET last == history[Len(history)]
        IN  /\ history' = SubSeq(history, 1, Len(history) - 1)
            /\ resume_step' = current_step
            /\ back_mode' = TRUE
            /\ state' = last.state_name
            /\ render_step(last.state_name, order, TRUE, last.prompt,
                           last.reply_markup, last.include_nav)
            /\ order' = order_after_nav(last)
     /\ nav_used' = nav_used + 1
     /\ view_at_back' = view
     /\ UNCHANGED <<managers_map, admin, pc, fin, outbox>>
  \/ NavIgnored(history = <<>>)

nav_continue ==
  \/ /\ Pressed("nav:continue", 0)
     /\ resume_step # NoStep
     /\ back_mode' = FALSE
     /\ resume_step' = NoStep
     /\ state' = resume_step.state_name
     /\ render_step(resume_step.state_name, order, FALSE, resume_step.prompt,
                    resume_step.reply_markup, resume_step.include_nav)
     /\ order' = order_after_nav(resume_step)
     /\ UNCHANGED <<history, managers_map, admin, pc, fin, outbox, nav_used>>
     /\ NotAfterBack
  \/ NavIgnored(resume_step = NoStep)

\* ------------------------------------------------------------- finalization
SessionFrame ==
  UNCHANGED <<state, order, history, current_step, resume_step, back_mode,
              order_message_id, view, managers_map, nav_used, view_at_back,
              admin, dispatcher>>

\* A finalization that never enters the loop over the targets.
PhaseOf_skip(files, todo) == IF files # <<>> THEN "download" ELSE "confirm"

\* The phase finalize_order is in once the given loops are exhausted.
PhaseOf(files, todo) ==
  IF files # <<>> THEN "download" ELSE IF todo # <<>> THEN "send" ELSE "confirm"

\* [m for m in manager_list if m.email == selected_manager_email]
SameEmail(manager_list, email) ==
  SelectSeq(manager_list, LAMBDA m : m.email = email)

\* The delivery targets finalize_order computes for an order.
target_managers(m, o) ==
  LET manager_list == region_managers(m, o.client.region)
      selected_manager_email == o.client.manager_email
  IN  IF Truthy(selected_manager_email)
      THEN SameEmail(manager_list, selected_manager_email)
      ELSE manager_list

fin_resolve ==
  /\ pc = "finalize"
  /\ LET targets == target_managers(managers_map, fin.order)
         files == [i \in 1..Len(fin.order.comment.photos) |->
                     [kind |-> "photo",
                      file_id |-> fin.order.comment.photos[i].file_id]]
                  \o [i \in 1..Len(fin.order.comment.documents) |->
                     [kind |-> "document",
                      file_id |-> fin.order.comment.documents[i].file_id]]
     IN  /\ fin' = [fin EXCEPT !.targets = targets, !.todo = targets,
                               !.files = files]
         /\ pc' = PhaseOf(files, targets)
  /\ outbox' = outbox
  /\ SessionFrame

\* One get_file / download_file: it succeeds, or raises and is logged.
fin_download ==
  /\ pc = "download"
  /\ \E ok \in BOOLEAN :
       fin' = [fin EXCEPT !.files = Tail(@),
                          !.attachments = IF ok THEN Append(@, Head(fin.files))
                                          ELSE @]
  /\ pc' = PhaseOf(Tail(fin.files), fin.todo)
  /\ outbox' = outbox
  /\ SessionFrame

\* A send whose exception nothing catches: the handler ends there.
SendOutcomes_raise == {}

\* What the try block around send_email_via_smtp can come to.
SendOutcomes == IF ConfigHasSmtp THEN {"ok", "error"} ELSE {"error"}

\* One round of the loop over target_managers.
fin_send ==
  /\ pc = "send"
  /\ LET manager == Head(fin.todo)
     IN  IF ~Truthy(manager.email)
         THEN /\ fin' = [fin EXCEPT
                           !.todo = Tail(@),
                           !.outcomes = Append(@, "no_email"),
                           !.manager_errors =
                              Append(@, [label |-> Or(manager.name, "Bez imeni"),
                                         email |-> Null,
                                         reason |-> "net email"])]
              /\ outbox' = outbox
         ELSE \E outcome \in SendOutcomes :
                /\ fin' = [fin EXCEPT
                             !.todo = Tail(@),
                             !.outcomes = Append(@, outcome),
                             !.successful_sends =
                                IF outcome = "ok" THEN @ + 1 ELSE @,
                             !.manager_errors =
                                IF outcome = "ok" THEN @
                                ELSE Append(@, [label |-> Or(manager.name,
                                                             manager.email),
                                                email |-> manager.email,
                                                reason |-> "exception"])]
                /\ outbox' = IF outcome = "ok"
                             THEN Append(outbox, Msg("email", manager.email,
                                                     <<>>, NoKb))
                             ELSE outbox
  /\ pc' = PhaseOf(<<>>, Tail(fin.todo))
  /\ SessionFrame

\* state.clear() and the closing confirmation to the customer.
fin_confirm ==
  /\ pc = "confirm"
  /\ outbox' = Append(outbox, Msg("confirmation", "client",
                                  format_user_summary(fin.order), new_order_kb))
  /\ state' = Null
  /\ order' = NoOrder
  /\ history' = <<>>
  /\ current_step' = NoStep
  /\ resume_step' = NoStep
  /\ back_mode' = FALSE
  /\ order_message_id' = 0
  /\ pc' = "idle"
  /\ UNCHANGED <<view, managers_map, fin, nav_used, view_at_back, admin,
                 dispatcher>>

\* ------------------------------------------------------------ specification
\* ------------------------------------------------------------ administrator
\* The directory editor, used by a user listed in ADMIN_IDS from a chat of
\* their own (is_admin holds in every handler).  admin is that user's FSM
\* session: the state pointer, the three data keys the editor uses, the
\* buttons of the editor's latest message and the text of the latest answer.
\* The editor is explored while the customer's conversation is at the region
\* or contact step or in finalization, for the orders whose region is
\* varied, that need no delivery and were entered without Back.
AdminWindow ==
  /\ state \in {"ask_region", "ask_manager_choice"}
  /\ TailVaried
  /\ order.delivery.needed = "Net"
  /\ nav_used = 0

AdminFrame ==
  UNCHANGED <<state, order, history, current_step, resume_step, back_mode,
              order_message_id, view, pc, fin, outbox, nav_used, view_at_back,
              dispatcher>>

AdminButton(data, arg, idx) == [data |-> data, arg |-> arg, idx |-> idx]

\* Names and chat ids typed by the administrator.
NameInputs == {"Zoya", " "}

ChatIdInputs == {"104", " +104", "12a", "1.5", " "}

\* int(text) of Python on the inputs explored: the decimal of the number, or
\* ValueError.
int_of(text) ==
  CASE text \in {"104", "+104"} -> "104"
    [] OTHER -> "ValueError"

\* The directory as load_managers reads back what save_managers wrote: a
\* name or e-mail that is empty is not written and comes back as None.
save_managers(m) ==
  [i \in 1..Len(m) |->
     [m[i] EXCEPT !.managers =
        [k \in 1..Len(m[i].managers) |->
           ManagerInfo(Or(m[i].managers[k].name, Null),
                       Or(m[i].managers[k].email, Null),
                       m[i].managers[k].chat_id)]]]

\* current_managers[region] = ms, for a region listed or not.
put_region(m, region, ms) ==
  IF \E i \in 1..Len(m) : m[i].region = region
  THEN [i \in 1..Len(m) |->
          IF m[i].region = region THEN [m[i] EXCEPT !.managers = ms] ELSE m[i]]
  ELSE Append(m, [region |-> region, managers |-> ms])

\* The session after admin_menu: state.clear() and the menu over directory m.
admin_menu(m) ==
  [NoAdmin EXCEPT
     !.kb = IF m = <<>> THEN {}
            ELSE {AdminButton("admin_edit", m[i].region, -1) : i \in 1..Len(m)}
                 \cup {AdminButton("admin_text", key, -1) :
                         key \in {"start", "freski", "designer", "background",
                                  "paintings"}},
     !.answer = IF m = <<>> THEN "Net regionov." ELSE "Vyberite deistvie:",
     !.edits = admin.edits]

\* The session after a handler saved the directory and showed the menu.
saved_menu(m) == [admin_menu(m) EXCEPT !.edits = admin.edits + 1]

admin_command ==
  /\ AdminWindow
  /\ admin' = admin_menu(managers_map)
  /\ UNCHANGED managers_map
  /\ AdminFrame

\* admin_text_start, admin_text_freski, admin_text_designer,
\* admin_text_background, admin_text_paintings.
admin_text ==
  /\ AdminWindow
  /\ \E b \in admin.kb :
       /\ b.data = "admin_text"
       /\ admin' = [admin EXCEPT
                      !.state = CASE b.arg = "start" -> "admin_edit_text_start"
                                  [] b.arg = "freski" -> "admin_edit_text_freski"
                                  [] b.arg = "designer" -> "admin_edit_text_designer"
                                  [] b.arg = "background" ->
                                       "admin_edit_text_background"
                                  [] OTHER -> "admin_edit_text_paintings",
                      !.kb = {}, !.answer = "Vvedite novyi tekst:"]
  /\ UNCHANGED managers_map
  /\ AdminFrame

\* admin_edit_text_start ... admin_edit_text_paintings: the text goes to
\* texts.json, whose prompts the model keeps symbolic.
admin_edit_text ==
  /\ AdminWindow
  /\ admin.state \in {"admin_edit_text_start", "admin_edit_text_freski",
                      "admin_edit_text_designer", "admin_edit_text_background",
                      "admin_edit_text_paintings"}
  /\ admin' = admin_menu(managers_map)
  /\ UNCHANGED managers_map
  /\ AdminFrame

admin_edit_region ==
  /\ AdminWindow
  /\ \E b \in admin.kb :
       /\ b.data = "admin_edit"
       /\ LET region == b.arg
              rm == region_managers(managers_map, region)
          IN  IF rm = <<>>
              THEN admin' = [admin EXCEPT
                               !.kb = {AdminButton("yes", Null, -1),
                                       AdminButton("no", Null, -1)},
                               !.answer = "Menedzherov net. Dobavit menedzhera?",
                               !.admin_edit_region = region,
                               !.admin_edit_manager_index = -1,
                               !.state = "admin_edit_manager_region"]
              ELSE admin' = [admin EXCEPT
                               !.kb = {AdminButton("admin_manager", region, i - 1) :
                                         i \in 1..Len(rm)}
                                      \cup {AdminButton("admin_add_manager",
                                                        region, -1),
                                            AdminButton("admin_back", Null, -1)},
                               !.answer = "Vyberite menedzhera:"]
  /\ UNCHANGED managers_map
  /\ AdminFrame

\* current_managers[region][manager_idx] raises for a button that lies beyond
\* the reloaded directory; the handler ends there.
admin_edit_manager ==
  /\ AdminWindow
  /\ \E b \in admin.kb :
       /\ b.data = "admin_manager"
       /\ b.idx < Len(region_managers(managers_map, b.arg))
       /\ admin' = [admin EXCEPT
                      !.kb = {AdminButton("admin_change_name", b.arg, b.idx),
                              AdminButton("admin_change_id", b.arg, b.idx),
                              AdminButton("admin_delete", b.arg, b.idx),
                              AdminButton("admin_edit", b.arg, -1)},
                      !.answer = "Chto izmenit?"]
  /\ UNCHANGED managers_map
  /\ AdminFrame

admin_add_manager ==
  /\ AdminWindow
  /\ \E b \in admin.kb :
       /\ b.data = "admin_add_manager"
       /\ admin' = [admin EXCEPT !.admin_edit_region = b.arg,
                                 !.admin_edit_manager_index = -1,
                                 !.state = "admin_edit_manager_name",
                                 !.kb = {},
                                 !.answer = "Vvedite imya novogo menedzhera:"]
  /\ UNCHANGED managers_map
  /\ AdminFrame

admin_change_name_start ==
  /\ AdminWindow
  /\ \E b \in admin.kb :
       /\ b.data = "admin_change_name"
       /\ admin' = [admin EXCEPT !.admin_edit_region = b.arg,
                                 !.admin_edit_manager_index = b.idx,
                                 !.state = "admin_edit_manager_name",
                                 !.kb = {},
                                 !.answer = "Vvedite novoe imya menedzhera:"]
  /\ UNCHANGED managers_map
  /\ AdminFrame

admin_change_name ==
  /\ AdminWindow
  /\ admin.state = "admin_edit_manager_name"
  /\ \E text \in NameInputs :
       LET region == admin.admin_edit_region
           manager_idx == admin.admin_edit_manager_index
           new_name == Strip(text)
           rm == region_managers(managers_map, region)
           saved == save_managers(put_region(managers_map, region,
                      [rm EXCEPT ![manager_idx + 1].name = new_name]))
       IN  IF manager_idx = -1
           THEN /\ admin' = [admin EXCEPT
                               !.state = "admin_edit_manager_chat_id",
                               !.admin_new_name = new_name,
                               !.answer = "Vvedite chat_id menedzhera:"]
                /\ UNCHANGED managers_map
           ELSE /\ manager_idx < Len(rm)
                /\ admin.edits < MaxEdits
                /\ managers_map' = saved
                /\ admin' = saved_menu(saved)
  /\ AdminFrame

admin_change_id_start ==
  /\ AdminWindow
  /\ \E b \in admin.kb :
       /\ b.data = "admin_change_id"
       /\ admin' = [admin EXCEPT !.admin_edit_region = b.arg,
                                 !.admin_edit_manager_index = b.idx,
                                 !.state = "admin_edit_manager_chat_id",
                                 !.kb = {},
                                 !.answer = "Vvedite novyi chat_id menedzhera:"]
  /\ UNCHANGED managers_map
  /\ AdminFrame

\* A parse failure that gives the edit up: state.clear() and the menu.
ParseFailure_abandon(text) ==
  /\ admin' = admin_menu(managers_map)
  /\ UNCHANGED managers_map

\* except ValueError: the error is answered and the handler returns.
ParseFailure(text) ==
  /\ admin' = [admin EXCEPT
                 !.answer = "Oshibka: chat_id dolzhen byt chislom. Poprobuite snova:"]
  /\ UNCHANGED managers_map

\* admin_change_chat_id for one typed message.
chat_id_message(text) ==
  /\ AdminWindow
  /\ admin.state = "admin_edit_manager_chat_id"
  /\ LET new_chat_id == int_of(Strip(text))
         region == admin.admin_edit_region
         manager_idx == admin.admin_edit_manager_index
         rm == region_managers(managers_map, region)
         added == Append(rm, ManagerInfo(admin.admin_new_name, Null, new_chat_id))
         changed == [rm EXCEPT ![manager_idx + 1].chat_id = new_chat_id]
         saved == save_managers(put_region(managers_map, region,
                    IF manager_idx = -1 THEN added ELSE changed))
     IN  IF new_chat_id = "ValueError"
         THEN /\ ParseFailure(text)
         ELSE /\ manager_idx = -1 \/ manager_idx < Len(rm)
              /\ admin.edits < MaxEdits
              /\ managers_map' = saved
              /\ admin' = saved_menu(saved)
  /\ AdminFrame

admin_change_chat_id == \E text \in ChatIdInputs : chat_id_message(text)

admin_delete_manager ==
  /\ AdminWindow
  /\ \E b \in admin.kb :
       /\ b.data = "admin_delete"
       /\ b.idx < Len(region_managers(managers_map, b.arg))
       /\ admin' = [admin EXCEPT
                      !.kb = {AdminButton("admin_confirm_delete", b.arg, b.idx),
                              AdminButton("admin_edit", b.arg, -1)},
                      !.answer = "Vy uvereny, chto hotite udalit menedzhera?"]
  /\ UNCHANGED managers_map
  /\ AdminFrame

admin_confirm_delete ==
  /\ AdminWindow
  /\ admin.edits < MaxEdits
  /\ \E b \in admin.kb :
       /\ b.data = "admin_confirm_delete"
       /\ LET rm == region_managers(managers_map, b.arg)
              popped == SubSeq(rm, 1, b.idx) \o SubSeq(rm, b.idx + 2, Len(rm))
              saved == save_managers(
                         IF popped = <<>>
                         THEN SelectSeq(managers_map,
                                        LAMBDA e : e.region # b.arg)
                         ELSE put_region(managers_map, b.arg, popped))
          IN  /\ b.idx < Len(rm)
              /\ managers_map' = saved
              /\ admin' = saved_menu(saved)
  /\ AdminFrame

admin_back ==
  /\ AdminWindow
  /\ \E b \in admin.kb : b.data = "admin_back"
  /\ admin' = admin_menu(managers_map)
  /\ UNCHANGED managers_map
  /\ AdminFrame

admin_add_manager_confirm ==
  /\ AdminWindow
  /\ admin.state = "admin_edit_manager_region"
  /\ \/ /\ AdminButton("yes", Null, -1) \in admin.kb
        /\ admin' = [admin EXCEPT !.state = "admin_edit_manager_name",
                                  !.kb = {},
                                  !.answer = "Vvedite imya novogo menedzhera:"]
     \/ /\ AdminButton("no", Null, -1) \in admin.kb
        /\ admin' = admin_menu(managers_map)
  /\ UNCHANGED managers_map
  /\ AdminFrame

Administrator ==
  \/ admin_command
  \/ admin_text
  \/ admin_edit_text
  \/ admin_edit_region
  \/ admin_edit_manager
  \/ admin_add_manager
  \/ admin_change_name_start
  \/ admin_change_name
  \/ admin_change_id_start
  \/ admin_change_chat_id
  \/ admin_delete_manager
  \/ admin_confirm_delete
  \/ admin_back
  \/ admin_add_manager_confirm

\* The handlers of the order conversation up to the region step.
Intake(P) ==
  \/ start
  \/ main_menu
  \/ freski_catalog(P)
  \/ freski_library_catalog
  \/ freski_article
  \/ freski_width
  \/ freski_height
  \/ freski_material(P)
  \/ freski_humidity(P)
  \/ freski_crackle_aging(P)
  \/ freski_color_sample(P)
  \/ designer_catalog
  \/ designer_article
  \/ designer_panel_size
  \/ designer_panel_order
  \/ designer_production_type
  \/ designer_color_sample(P)
  \/ designer_mirror(P)
  \/ background_material(P)
  \/ background_catalog
  \/ background_article
  \/ background_height(P)
  \/ background_width
  \/ background_color_sample(P)
  \/ paintings_article
  \/ paintings_canvas_width
  \/ paintings_canvas_height
  \/ paintings_visible_width
  \/ paintings_visible_height
  \/ ask_comment_skip(P)
  \/ ask_comment_done(P)
  \/ ask_comment_photo(P)
  \/ ask_comment_document(P)
  \/ ask_comment_text(P)
  \/ ask_delivery_needed
  \/ delivery_type
  \/ delivery_address
  \/ delivery_carrier(P)
  \/ delivery_crate(P)
  \/ ask_legal_entity
  \/ ask_city
  \/ ask_phone
  \/ ask_email
  \/ nav_back(P)
  \/ nav_continue

Customer(P) == Intake(P) \/ new_order \/ ask_region \/ ask_manager_choice

Finalization == fin_resolve \/ fin_download \/ fin_send \/ fin_confirm

NextOf(P) == Customer(P) \/ Finalization

\* Conversations with Back and Continue.
Init == InitOf("flow")

Next == NextOf("flow")

Spec == Init /\ [][Next]_vars

\* Conversations over every fresco material, catalog and wallpaper height.
SpecMaterials == InitOf("materials") /\ [][NextOf("materials")]_vars

\* Conversations with several attachments, oversize ones included.
SpecFiles == InitOf("files") /\ [][NextOf("files")]_vars

\* Conversations over several contact directories.
SpecRegions == InitOf("regions") /\ [][NextOf("regions")]_vars

\* Conversations over every carrier.
SpecDelivery == InitOf("delivery") /\ [][NextOf("delivery")]_vars

\* The order conversation up to the region step when the dispatcher handles
\* the conversation's updates as tasks (Dispatcher() and start_polling() are
\* called with their defaults): a typed answer can be handled while the
\* render of the previous one is still awaiting Telegram.
SpecTasks == InitOf("tasks") /\ [][Intake("tasks") \/ resume_render]_vars

\* The end of the order conversation while the administrator edits the
\* directory from another chat.
SpecAdmin ==
  InitOf("admin") /\ [][Customer("admin") \/ Finalization \/ Administrator]_vars

\* Finalization runs to its end: finalize_order is one coroutine whose every
\* await returns or raises (the SMTP connection has a timeout).
SpecRegionsFair == SpecRegions /\ WF_vars(Finalization)

\* Conversations over a directory with regions and over a directory without
\* any region (managers.json with an empty list of regions).
SpecDirectories == InitOf("empty") /\ [][NextOf("empty")]_vars

\* Orders of background wallpaper over both materials and every height, with
\* Back as far as the section menu.
Background(P) ==
  \/ start
  \/ main_menu
  \/ background_material(P)
  \/ background_catalog
  \/ background_article
  \/ background_height(P)
  \/ background_width
  \/ nav_back(P)
  \/ nav_continue

SpecHeights == InitOf("heights") /\ [][Background("heights")]_vars

\* The chain of yes/no questions.  Its four handlers are registered on the
\* router, but no handler of the program sets the state ask_freski, so the
\* chain is applied here to a session placed at its first question, with the
\* empty order of a new conversation.
InitGates ==
  /\ state = "ask_freski"
  /\ order = build_empty_order(telegram_label)
  /\ history = <<>>
  /\ current_step = Step("ask_freski", order, <<"Hotite freski?">>, yes_no_kb, TRUE)
  /\ resume_step = NoStep
  /\ back_mode = FALSE
  /\ order_message_id = 1
  /\ view = RenderView(order, <<"Hotite freski?">>, yes_no_kb, TRUE, FALSE)
  /\ managers_map \in Directories("gates")
  /\ pc = "idle"
  /\ fin = NoFin
  /\ outbox = <<>>
  /\ nav_used = 0
  /\ view_at_back = NoView
  /\ admin = NoAdmin
  /\ dispatcher = [handle_as_tasks |-> FALSE, suspended |-> <<>>, ahead |-> 0]

Gates ==
  \/ ask_freski
  \/ ask_designer_wallpapers
  \/ ask_background_wallpapers
  \/ ask_paintings

SpecGates == InitGates /\ [][Gates \/ Intake("gates")]_vars

\* ================================================================== claims
\* C1: in ask_region, a region with exactly one contact goes to finalization
\* with that contact resolved and without entering the contact-choice state;
\* a region with several contacts enters the contact-choice state, offers
\* each contact and waits; a region without contacts goes to finalization
\* with no resolved contact.
C1_RegionResolution ==
  [][ask_region =>
       LET region == order'.client.region
           at == CHOOSE i \in 1..Len(managers_map) :
                   managers_map[i].region = region
           contacts == managers_map[at].managers
       IN  /\ \E i \in 1..Len(managers_map) : managers_map[i].region = region
           /\ Len(contacts) = 1 =>
                /\ pc' = "finalize"
                /\ state' = "ask_region"
                /\ fin'.order.client.manager_email = contacts[1].email
           /\ Len(contacts) > 1 =>
                /\ pc' = "idle"
                /\ state' = "ask_manager_choice"
                /\ \A k \in 1..Len(contacts) : HasButton(view'.kb, "manager", k - 1)
                /\ order'.client.manager_email = Null
           /\ Len(contacts) = 0 =>
                /\ pc' = "finalize"
                /\ state' = "ask_region"
                /\ fin'.order.client.manager_email = Null
                /\ fin'.order.client.manager_name = Null]_vars

\* A region without contacts was chosen and finalization has begun.
C1_EmptyRegionFinalizes ==
  /\ pc = "finalize"
  /\ state = "ask_region"
  /\ fin.order.client.region = "Sever"

\* C2: Continue pressed right after Back renders the order message exactly
\* as it was when Back was pressed (summary, prompt, buttons, controls).
C2_BackContinueRoundTrip ==
  [][(nav_continue /\ view_at_back # NoView) => view' = view_at_back]_vars

\* Back was pressed on a message that already showed the Continue control.
C2_BackInReview ==
  /\ view_at_back # NoView
  /\ HasButton(view_at_back.kb, "nav:continue", 0)

\* C3: every target gets its own round of the delivery loop whatever the
\* earlier rounds came to, a target without an address is a failure of that
\* target, and the recorded failures name, in order, the targets that failed.
C3_IndependentDelivery ==
  pc \in {"send", "confirm"} =>
    LET done == Len(fin.targets) - Len(fin.todo)
        failed == {i \in 1..done : fin.outcomes[i] # "ok"}
    IN  /\ Len(fin.outcomes) = done
        /\ pc = "confirm" => done = Len(fin.targets)
        /\ \A i \in 1..done :
             (fin.outcomes[i] = "no_email") <=> ~Truthy(fin.targets[i].email)
        /\ Len(fin.manager_errors) = Cardinality(failed)
        /\ \A i \in failed :
             LET k == Cardinality({j \in failed : j <= i})
                 t == fin.targets[i]
             IN  /\ fin.manager_errors[k].email = t.email
                 /\ fin.manager_errors[k].label =
                      Or(t.name, IF Truthy(t.email) THEN t.email ELSE "Bez imeni")

\* Three targets were tried and each one failed in its own way.
C3_ThreeFailures ==
  /\ pc = "confirm"
  /\ Len(fin.targets) = 3
  /\ Len(fin.manager_errors) = 3
  /\ \E i, j \in 1..3 : fin.outcomes[i] = "no_email" /\ fin.outcomes[j] = "error"

\* C4: once finalize_order is entered the customer gets the closing
\* confirmation, whatever the downloads and the deliveries came to.
C4_ConfirmationEventually ==
  (pc = "finalize") ~>
     (pc = "idle" /\ outbox # <<>> /\ outbox[Len(outbox)].kind = "confirmation")

\* The confirmation went out after a failed download and a failed delivery.
C4_ConfirmedDespiteFailures ==
  /\ pc = "idle"
  /\ outbox # <<>>
  /\ outbox[Len(outbox)].kind = "confirmation"
  /\ fin.manager_errors # <<>>
  /\ fin.order # NoOrder
  /\ Len(fin.attachments) < FilesIn(fin.order)

\* C5: with forwarding to the administrators enabled, a finished
\* finalization has sent an administrator notification.
C5_AdminNotified ==
  ( /\ forward_to_admins
    /\ pc = "idle"
    /\ outbox # <<>>
    /\ outbox[Len(outbox)].kind = "confirmation" )
  => \E i \in 1..Len(outbox) : outbox[i].kind = "admin_notification"

\* Forwarding is enabled and a finalization with delivery failures is over.
C5_FinalizedWithFailures ==
  /\ forward_to_admins
  /\ pc = "idle"
  /\ fin.order # NoOrder
  /\ fin.manager_errors # <<>>
  /\ \A i \in 1..Len(outbox) : outbox[i].kind # "admin_notification"

\* C6: after a choice at the contact-choice step the delivery targets are the
\* chosen contact alone; without one they are the contacts of the region.
C6_ChosenContactOnly ==
  pc \in {"download", "send", "confirm"} =>
    LET region == fin.order.client.region
        at == CHOOSE i \in 1..Len(managers_map) : managers_map[i].region = region
    IN  IF state = "ask_manager_choice"
        THEN /\ Len(fin.targets) = 1
             /\ Or(fin.targets[1].name, Or(fin.targets[1].email, "Menedzher"))
                  = fin.order.client.manager_name
        ELSE fin.targets = managers_map[at].managers

\* A contact with a chat id and no email was chosen, and several are targeted.
C6_ChatOnlyContactChosen ==
  /\ pc = "confirm"
  /\ state = "ask_manager_choice"
  /\ ~Truthy(fin.order.client.manager_email)
  /\ Len(fin.targets) > 1

\* C7: the customer summary, in the order message and in the confirmation,
\* shows a category's section exactly when the category's enabled flag is
\* true, and no field of a category that is not enabled.
C7_SectionsFollowFlags ==
  LET Shown(summary, labels) ==
        \E i \in 1..Len(summary) : summary[i][1] \in labels
      Agrees(summary, o) ==
        /\ Shown(summary, {"FRESKI"}) <=> o.freski.enabled
        /\ Shown(summary, {"DIZAINERSKIE OBOI"}) <=> o.designer_wallpapers.enabled
        /\ Shown(summary, {"FONOVYE OBOI"}) <=> o.background_wallpapers.enabled
        /\ Shown(summary, {"KARTINY"}) <=> o.paintings.enabled
        /\ Shown(summary, {"Cvetoproba", "Gidroizolyaciya", "Starenie"})
             => o.freski.enabled
        /\ Shown(summary, {"Razmer paneli", "Poryadok panelei",
                           "Tip proizvodstva", "Otzerkalit"})
             => o.designer_wallpapers.enabled
        /\ Shown(summary, {"Cvetoproba nuzhna"})
             => o.designer_wallpapers.enabled \/ o.background_wallpapers.enabled
        /\ Shown(summary, {"Maks. razmer, sm", "Polnyi razmer holsta, sm",
                           "Vidimyi razmer izobrazheniya, sm"})
             => o.paintings.enabled
        /\ Shown(summary, {"Katalog", "Artikul", "Material"})
             => \/ o.freski.enabled \/ o.designer_wallpapers.enabled
                \/ o.background_wallpapers.enabled \/ o.paintings.enabled
  IN  /\ order # NoOrder => Agrees(view.summary, order)
      /\ (outbox # <<>> /\ outbox[Len(outbox)].kind = "confirmation")
           => Agrees(outbox[Len(outbox)].body, fin.order)

\* Two categories were enabled through Back, the other two were not, and
\* answers of both are in the order.
C7_TwoSectionsShown ==
  /\ order # NoOrder
  /\ order.freski.enabled
  /\ order.paintings.enabled
  /\ ~order.designer_wallpapers.enabled
  /\ ~order.background_wallpapers.enabled
  /\ order.paintings.article # Null

\* C8: freski_material sends each configured material to one next state:
\* the humidity question for Sabbia, Sabbia Fasad and Pietra, the aging
\* question for Krakelur, the comment step with the color proof preset for
\* Kolore and Kolore Lait, the generic color-proof question for the others.
C8_MaterialTableTotal ==
  [][freski_material("materials") =>
       LET m == order'.freski.material
       IN  /\ \E i \in 1..Len(freski_materials) : freski_materials[i] = m
           /\ state' = CASE m \in {"Sabbia", "Sabbia Fasad", "Pietra"} ->
                               "freski_humidity"
                          [] m = "Krakelur" -> "freski_crackle_aging"
                          [] m \in {"Kolore", "Kolore Lait"} -> "ask_comment"
                          [] OTHER -> "freski_color_sample"
           /\ order'.freski.color_sample =
                IF m \in {"Kolore", "Kolore Lait"} THEN "Da"
                ELSE order.freski.color_sample
           /\ view'.prompt # <<>>]_vars

\* The humidity branch was taken for a material in the middle of the list.
C8_HumidityBranchTaken ==
  /\ state = "freski_humidity"
  /\ order.freski.material = "Sabbia Fasad"
  /\ HasButton(view.kb, "yes", 0)

\* C9: the comment's total_size is the sum of the sizes recorded for its
\* photos and documents and is at most 15 MB, and no recorded size is above
\* 5 MB, in the session's order and in the order handed to finalization.
C9_AttachmentAccounting ==
  LET RECURSIVE SumSizes(_)
      SumSizes(files) ==
        IF files = <<>> THEN 0 ELSE Head(files).size + SumSizes(Tail(files))
      Accounted(c) ==
        /\ c.total_size = SumSizes(c.photos) + SumSizes(c.documents)
        /\ c.total_size <= TotalLimit
        /\ \A i \in 1..Len(c.photos) : c.photos[i].size <= PerFileLimit
        /\ \A i \in 1..Len(c.documents) : c.documents[i].size <= PerFileLimit
  IN  /\ order # NoOrder => Accounted(order.comment)
      /\ fin.order # NoOrder => Accounted(fin.order.comment)

\* Photos and documents fill the cumulative ceiling exactly.
C9_CeilingReached ==
  /\ order # NoOrder
  /\ order.comment.total_size = TotalLimit
  /\ order.comment.photos # <<>>
  /\ order.comment.documents # <<>>

\* C10: a photo or document above the per-file ceiling, or one that would
\* take the total above the cumulative ceiling, leaves the order (lists,
\* text, total), the state pointer and the history as they were, and the
\* comment step is rendered again under a warning.
C10_RejectionChangesOnlyView ==
  [][\A file_size \in FileSizes("files"), caption \in Captions("files") :
       ( /\ \/ photo_message("files", file_size, caption)
            \/ document_message("files", file_size, caption)
         /\ \/ file_size > PerFileLimit
            \/ order.comment.total_size + file_size > TotalLimit )
       => /\ order' = order
          /\ state' = "ask_comment"
          /\ history' = history
          /\ resume_step' = resume_step
          /\ back_mode' = back_mode
          /\ view'.summary = view.summary
          /\ view'.prompt[1] \in {"Fail bolshe 5 MB.",
                                  "Prevyshen obshii limit 15 MB."}
          /\ Tail(view'.prompt) = comment_prompt(order)
          /\ HasButton(view'.kb, "comment:done", 0)
          /\ HasButton(view'.kb, "comment:skip", 0)]_vars

\* A file was refused because the comment already holds 15 MB.
C10_RefusedAtCeiling ==
  /\ state = "ask_comment"
  /\ order # NoOrder
  /\ order.comment.total_size = TotalLimit
  /\ view.prompt # <<>>
  /\ view.prompt[1] = "Prevyshen obshii limit 15 MB."

\* C11: skipping the free-text comment, by the skip button or by a typed
\* synonym in any letter case, stores null for the comment text and the
\* summary then shows a line for the comment text carrying a fixed label,
\* never the synonym that was typed.
C11_SkipShowsFixedLabel ==
  [][\A text \in {"Skip", "PROPUSTIT ", "propusk"} :
       (ask_comment_skip("delivery") \/ comment_text_message("delivery", text))
       => /\ order'.comment.text = Null
          /\ \E i \in DOMAIN view'.summary : view'.summary[i][1] = "Tekst"
          /\ \A i \in DOMAIN view'.summary :
                view'.summary[i][2] \notin {text, Strip(text), Lower(Strip(text))}]_vars

\* A comment step was left with the text skipped: the summary has no line for
\* the comment text.
C11_SkippedTextNotShown ==
  /\ state = "ask_delivery_needed"
  /\ CommentVaried
  /\ order.comment.text = Null
  /\ \A i \in DOMAIN view.summary : view.summary[i][1] # "Tekst"

\* C12: Back and Continue leave the order unchanged; they move only the state
\* pointer, the history, the resume slot, the back-review flag and the view.
C12_NavigationKeepsOrder ==
  [][(nav_back("flow") \/ nav_continue)
     => /\ order' = order
        /\ UNCHANGED <<managers_map, pc, fin, outbox, order_message_id>>]_vars

\* Back was pressed on an order that already has answers, and the step shown
\* is not the one that was current.
C12_BackOnFilledOrder ==
  /\ view_at_back # NoView
  /\ back_mode
  /\ order.freski.enabled
  /\ order.freski.catalog_name # Null
  /\ resume_step # current_step

\* C13: the delivery type, address, carrier and crate of an order are
\* populated only when its delivery.needed is yes, also after Back and a new
\* answer to the delivery question.
C13_DeliveryFieldsOnlyWhenNeeded ==
  (order # NoOrder /\ order.delivery.needed # "Da")
  => /\ order.delivery.type = Null
     /\ order.delivery.address = Null
     /\ order.delivery.carrier = Null
     /\ order.delivery.crate = Null

\* The delivery question was answered no after an earlier yes: the order
\* message shows the delivery type under a delivery that is not needed.
C13_DeclinedAfterTypeChosen ==
  /\ state = "ask_legal_entity"
  /\ order.delivery.needed = "Net"
  /\ order.delivery.type # Null
  /\ \E i \in DOMAIN view.summary :
       view.summary[i] = Line("Tip", order.delivery.type)

\* C16: for an order whose region has exactly one contact, finalization makes
\* exactly one delivery attempt, and every delivery attempt is made before
\* the confirmation is sent.
C16_OneContactOneAttempt ==
  LET attempts == {i \in DOMAIN fin.outcomes : fin.outcomes[i] # "no_email"}
      confirmed == \E i \in DOMAIN outbox : outbox[i].kind = "confirmation"
  IN  /\ (pc = "confirm"
          /\ Len(region_managers(managers_map, fin.order.client.region)) = 1)
         => Cardinality(attempts) = 1
      /\ confirmed => (pc = "idle" /\ fin.todo = <<>> /\ fin.files = <<>>)

\* The loop over the targets has ended for a region whose only contact has a
\* chat id and no e-mail: nothing was sent or tried.
C16_ChatOnlyContactSkipped ==
  /\ pc = "confirm"
  /\ Len(region_managers(managers_map, fin.order.client.region)) = 1
  /\ fin.targets[1].chat_id # Null
  /\ fin.outcomes = <<"no_email">>
  /\ fin.successful_sends = 0

\* C17: the confirmation never shows the customer's chat handle and never a
\* section of a category that is not enabled; the same order under another
\* chat handle gives the same confirmation.
C17_ConfirmationHidesHandle ==
  \A k \in DOMAIN outbox :
    outbox[k].kind = "confirmation"
    => LET body == outbox[k].body
           o == fin.order
           Header(h) == \E i \in DOMAIN body : body[i] = Line(h, "")
       IN  /\ \A i \in DOMAIN body :
                 body[i][1] # "Telegram" /\ body[i][2] # o.client.telegram
           /\ body = format_user_summary(
                        [o EXCEPT !.client.telegram = "@other (id 2)"])
           /\ Header("FRESKI") => o.freski.enabled
           /\ Header("DIZAINERSKIE OBOI") => o.designer_wallpapers.enabled
           /\ Header("FONOVYE OBOI") => o.background_wallpapers.enabled
           /\ Header("KARTINY") => o.paintings.enabled

\* An order with one category enabled and the client's answers was confirmed
\* to a customer who has a chat handle.
C17_ConfirmedWithHandle ==
  /\ outbox # <<>>
  /\ outbox[Len(outbox)].kind = "confirmation"
  /\ fin.order.client.telegram = telegram_label
  /\ fin.order.designer_wallpapers.enabled
  /\ ~fin.order.freski.enabled
  /\ \E i \in DOMAIN outbox[Len(outbox)].body :
       outbox[Len(outbox)].body[i] = Line("Yurlico", fin.order.client.legal_entity)

\* C18: finalization resets the conversation: no order, history, resume slot,
\* back-review flag or order message id is left; and the next order, begun by
\* the start command or by the new-order button, begins from the empty order
\* with every category disabled and no answer.
C18_ResetAndFreshOrder ==
  [][/\ fin_confirm
        => /\ state' = Null /\ order' = NoOrder /\ history' = <<>>
           /\ current_step' = NoStep /\ resume_step' = NoStep
           /\ back_mode' = FALSE /\ order_message_id' = 0
     /\ (start \/ new_order)
        => /\ order' # NoOrder
           /\ order' = [build_empty_order(Null) EXCEPT
                          !.client.telegram = telegram_label]
           /\ ~order'.freski.enabled /\ ~order'.designer_wallpapers.enabled
           /\ ~order'.background_wallpapers.enabled /\ ~order'.paintings.enabled
           /\ order'.delivery.needed = Null /\ order'.comment.text = Null
           /\ history' = <<>> /\ resume_step' = NoStep /\ back_mode' = FALSE
           /\ state' = "main_menu"]_vars

\* An order with answers has been confirmed and the session is empty; the
\* confirmation offers the new-order button.
C18_ConfirmedAndCleared ==
  /\ pc = "idle"
  /\ state = Null
  /\ order = NoOrder
  /\ fin.order # NoOrder
  /\ fin.order.client.email # Null
  /\ outbox # <<>>
  /\ outbox[Len(outbox)].kind = "confirmation"
  /\ HasButton(outbox[Len(outbox)].kb, "new_order", 0)

\* C19: in the customer's summary a field line is written only if the field's
\* value is not null; this includes the delivery type, carrier and crate.
C19_FieldLinesOnlyForValues ==
  order # NoOrder
  => LET Shown(label) ==
           \E i \in DOMAIN view.summary : view.summary[i][1] = label
     IN  /\ Shown("Tip") => order.delivery.type # Null
         /\ Shown("Adres") => order.delivery.address # Null
         /\ Shown("TK/Samovyvoz") => order.delivery.carrier # Null
         /\ Shown("Obreshetka") => order.delivery.crate # Null
         /\ \A i \in DOMAIN view.summary :
               view.summary[i][2] # safe_value(Null)

\* Delivery was declined at the first answer: the order message shows the
\* delivery type, the carrier and the crate as dashes.
C19_DeclinedDeliveryShown ==
  /\ state = "ask_legal_entity"
  /\ order.delivery = [build_empty_order(Null).delivery EXCEPT !.needed = "Net"]
  /\ \E i \in DOMAIN view.summary : view.summary[i] = Line("Tip", "-")
  /\ \E i \in DOMAIN view.summary : view.summary[i] = Line("TK/Samovyvoz", "-")
  /\ \E i \in DOMAIN view.summary : view.summary[i] = Line("Obreshetka", "-")

\* C14: the events of one conversation are handled one at a time, each to
\* completion with its render: at most one handler is in progress, no step is
\* pushed to the history twice, and once every render has returned the
\* recorded current step is the step the order message shows.
C14_HandledOneAtATime ==
  /\ Len(dispatcher.suspended) <= 1
  /\ \A i \in 1..(Len(history) - 1) : history[i] # history[i + 1]
  /\ (Rendered /\ pc = "idle" /\ current_step # NoStep)
       => /\ current_step.state_name = state
          /\ current_step.prompt = view.prompt

\* An answer was handled while the render of the previous step was
\* outstanding; both renders have returned, and the history holds the older
\* step twice and the step in between not at all.
C14_StepPushedTwice ==
  /\ dispatcher.handle_as_tasks
  /\ dispatcher.ahead = 1
  /\ Rendered
  /\ \E i \in 1..(Len(history) - 1) : history[i] = history[i + 1]
  /\ \A i \in DOMAIN history : history[i].prompt # current_step.prompt

\* C15: the contact directory a conversation observes does not change while
\* the conversation lasts, whatever the administrator saves meanwhile: the
\* regions the customer is offered are the regions of the directory the
\* handlers read, and the contacts offered are the contacts of the region.
C15_DirectoryStableInConversation ==
  LET Offered(prefix) == SelectSeq(view.kb, LAMBDA b : b.prefix = prefix)
  IN  /\ (state = "ask_region" /\ pc = "idle" /\ Offered("region") # <<>>)
         => Offered("region") = list_kb(regions_list(managers_map), "region")
      /\ (state = "ask_manager_choice" /\ pc = "idle"
          /\ Offered("manager") # <<>>)
         => Offered("manager") =
              list_kb(manager_labels(region_managers(managers_map,
                                                     order.client.region)),
                      "manager")

\* The customer is looking at the region list while the administrator has
\* deleted the only contact of a region: the list still offers the region
\* that the directory no longer has.
C15_RegionListOutdated ==
  /\ state = "ask_region"
  /\ pc = "idle"
  /\ admin.edits = 1
  /\ Len(regions_list(managers_map)) = 2
  /\ Len(SelectSeq(view.kb, LAMBDA b : b.prefix = "region")) = 3

\* C20: a chat id typed in the editor that does not parse as an integer
\* leaves the state pointer at the chat-id step and changes neither the
\* stored directory nor the pending edit data of the session; the only
\* effect is the answer asking again, with the error.
C20_ParseFailureReprompts ==
  [][\A text \in {"12a", "1.5", " "} :
       chat_id_message(text)
       => /\ admin'.state = "admin_edit_manager_chat_id"
          /\ admin'.state = admin.state
          /\ managers_map' = managers_map
          /\ admin'.admin_edit_region = admin.admin_edit_region
          /\ admin'.admin_edit_manager_index = admin.admin_edit_manager_index
          /\ admin'.admin_new_name = admin.admin_new_name
          /\ admin'.kb = admin.kb
          /\ admin'.answer =
               "Oshibka: chat_id dolzhen byt chislom. Poprobuite snova:"
          /\ UNCHANGED <<state, order, history, view, outbox, pc, fin>>]_vars

\* The administrator, adding a contact, has typed a chat id that is not a
\* number: the editor has answered with the error and still holds the name
\* typed before.
C20_RepromptedWhileAdding ==
  /\ admin.state = "admin_edit_manager_chat_id"
  /\ admin.answer = "Oshibka: chat_id dolzhen byt chislom. Poprobuite snova:"
  /\ admin.admin_edit_manager_index = -1
  /\ admin.admin_new_name = "Zoya"
  /\ admin.admin_edit_region # Null

\* C21: within one conversation the history is never pushed to while Back or
\* Continue is handled; Back removes exactly the most recent descriptor and
\* nothing else shrinks the history; Continue leaves it unchanged; every
\* forward handler keeps the earlier entries in place.  The conversation
\* reset (start, new order, the end of finalization) discards the session.
C21_HistoryGrowsForwardShrinksByBack ==
  [][LET n == Len(history)
         reset == start \/ new_order \/ fin_confirm
     IN  /\ nav_back("flow") =>
              /\ n > 0
              /\ history' = SubSeq(history, 1, n - 1)
         /\ nav_continue => history' = history
         /\ ~(nav_back("flow") \/ reset) =>
              /\ Len(history') >= n
              /\ SubSeq(history', 1, n) = history]_vars

\* Back has been used as often as the bound allows and a forward answer has
\* followed, on a history that holds earlier entries.
C21_ForwardAfterBack ==
  /\ nav_used = MaxNav
  /\ ~back_mode
  /\ resume_step = NoStep
  /\ Len(history) >= 3

\* C22: every forward state transition (the state pointer moves to another
\* question, not by Back, Continue or a conversation reset) pushes exactly
\* one descriptor, the step being left; this includes the transition from
\* the region step to the contact-choice step and the contact-not-found path.
C22_OnePushPerTransition ==
  [][LET reset == start \/ new_order \/ fin_confirm
         forward == /\ state # Null
                    /\ state' # Null
                    /\ state' # state
                    /\ ~(nav_back("flow") \/ nav_continue \/ reset)
     IN  forward => history' = Append(history, current_step)]_vars

\* The contact-choice question is open and the region step is not the most
\* recent entry of the history.
C22_RegionStepNotPushed ==
  /\ state = "ask_manager_choice"
  /\ Rendered
  /\ history # <<>>
  /\ history[Len(history)].state_name # "ask_region"

\* C23: a Back event on a non-empty history pops the most recent descriptor,
\* stores the step that was current in the resume slot, sets the state
\* pointer to the popped step's state and renders exactly the popped step's
\* prompt and choice buttons.
C23_BackRestoresPoppedStep ==
  [][nav_used' = nav_used + 1 =>
       /\ history # <<>>
       /\ LET last == history[Len(history)]
              n == Len(last.reply_markup)
          IN  /\ history' = SubSeq(history, 1, Len(history) - 1)
              /\ resume_step' = current_step
              /\ state' = last.state_name
              /\ view'.prompt = last.prompt
              /\ Len(view'.kb) >= n
              /\ SubSeq(view'.kb, 1, n) = last.reply_markup
              /\ \A i \in (n + 1)..Len(view'.kb) :
                   view'.kb[i].prefix \in {"nav:back", "nav:continue"}]_vars

\* Back has just shown an earlier question with its choice buttons, and the
\* step that was left is kept in the resume slot.
C23_BackShowedChoiceStep ==
  /\ back_mode
  /\ resume_step # NoStep
  /\ resume_step.state_name # state
  /\ current_step.state_name = state
  /\ current_step.reply_markup # NoKb
  /\ view.prompt = current_step.prompt
  /\ view # view_at_back

\* C24: every Back event that pops a step enters back-review mode and the
\* view it renders contains a Continue control, for every popped step
\* including the initial section-menu step; a Continue control is never
\* shown outside back-review mode.
C24_BackShowsContinue ==
  [][/\ nav_used' = nav_used + 1 =>
          /\ back_mode'
          /\ HasButton(view'.kb, "nav:continue", 0)
     /\ HasButton(view'.kb, "nav:continue", 0) => back_mode']_vars

\* Back has returned to the section menu: the conversation is in back-review
\* mode with a step to resume, and the order message has no Continue button.
C24_MenuReviewedWithoutContinue ==
  /\ state = "main_menu"
  /\ back_mode
  /\ resume_step # NoStep
  /\ Rendered
  /\ ~HasButton(view.kb, "nav:continue", 0)

\* C25: a forward state transition made in back-review mode clears the
\* resume slot and leaves back-review mode, so that afterwards there is no
\* step for a Continue event to restore and no Continue button to press.
C25_ForwardLeavesReview ==
  [][LET reset == start \/ new_order \/ fin_confirm
         forward == /\ state # Null
                    /\ state' # Null
                    /\ state' # state
                    /\ nav_used' = nav_used
                    /\ ~(nav_continue \/ reset)
     IN  (back_mode /\ forward) =>
           /\ ~back_mode'
           /\ resume_step' = NoStep
           /\ ~HasButton(view'.kb, "nav:continue", 0)]_vars

\* Back returned from the fresco catalogue to the section menu and the
\* customer went forward into another section: review mode is over.
C25_OtherSectionAfterBack ==
  /\ state = "designer_catalog"
  /\ order.freski.enabled
  /\ order.freski.catalog_name = Null
  /\ order.designer_wallpapers.enabled
  /\ nav_used = 1
  /\ ~back_mode
  /\ resume_step = NoStep

\* C26: a category's first sub-question is entered (other than by Back or
\* Continue) only from that category's yes/no gate state, so every path from
\* the start of the conversation into the category passes through its gate.
C26_SubQuestionsBehindGate ==
  [][LET gates == {<<"ask_freski", "freski_catalog">>,
                   <<"ask_designer_wallpapers", "designer_catalog">>,
                   <<"ask_background_wallpapers", "background_material">>,
                   <<"ask_paintings", "paintings_article">>}
     IN  \A g \in gates :
           (/\ state' = g[2]
            /\ state # g[2]
            /\ nav_used' = nav_used
            /\ ~nav_continue) => state = g[1]]_vars

\* The first fresco question is open and the only step left behind is the
\* section menu: no gate question was asked.
C26_SectionEnteredFromMenu ==
  /\ state = "freski_catalog"
  /\ order.freski.enabled
  /\ nav_used = 0
  /\ Len(history) = 1
  /\ history[1].state_name = "main_menu"

\* C27: at each of the four gate states an answer either sets the category's
\* enabled flag to false and moves to the next category's gate (to the
\* comment step of the shared tail after the last gate), entering none of
\* the category's questions, or sets the flag to true and enters the
\* category's first question; nothing else of the order changes.
C27_GateAnswerSkipsOrEnters ==
  [][LET forward == /\ state' # state
                    /\ nav_used' = nav_used
                    /\ ~(nav_continue \/ start)
         gate(st, first, next, on, off) ==
           (state = st /\ forward) =>
              \/ state' = first /\ order' = on
              \/ state' = next /\ order' = off
     IN  /\ gate("ask_freski", "freski_catalog", "ask_designer_wallpapers",
                 [order EXCEPT !.freski.enabled = TRUE],
                 [order EXCEPT !.freski.enabled = FALSE])
         /\ gate("ask_designer_wallpapers", "designer_catalog",
                 "ask_background_wallpapers",
                 [order EXCEPT !.designer_wallpapers.enabled = TRUE],
                 [order EXCEPT !.designer_wallpapers.enabled = FALSE])
         /\ gate("ask_background_wallpapers", "background_material",
                 "ask_paintings",
                 [order EXCEPT !.background_wallpapers.enabled = TRUE],
                 [order EXCEPT !.background_wallpapers.enabled = FALSE])
         /\ gate("ask_paintings", "paintings_article", "ask_comment",
                 [order EXCEPT !.paintings.enabled = TRUE],
                 [order EXCEPT !.paintings.enabled = FALSE])]_vars

\* The fresco gate was answered no and the designer gate after it yes, with
\* one Back on the way.
C27_DeclinedThenAccepted ==
  /\ state = "designer_catalog"
  /\ ~order.freski.enabled
  /\ order.designer_wallpapers.enabled
  /\ nav_used = 1
  /\ Len(history) = 2
  /\ history[1].state_name = "ask_freski"
  /\ history[2].state_name = "ask_designer_wallpapers"

\* C28: a handler stores the answered field, then moves the state pointer,
\* then renders the next prompt: the summary of every rendered order message
\* is the summary of the stored order, the field just answered included, also
\* when Back is handled while the render of an answer is outstanding; and the
\* step recorded for a rendered prompt carries the state the pointer has
\* moved to.
C28_SummaryReflectsStoredOrder ==
  /\ (order # NoOrder /\ view # NoView) =>
        view.summary = format_user_summary(order)
  /\ (Rendered /\ current_step # NoStep /\ state # Null) =>
        current_step.state_name = state

\* Back was handled while the render of an answer was still outstanding, on
\* an order with an answered field.
C28_BackDuringRender ==
  /\ Len(dispatcher.suspended) = 2
  /\ nav_used = 1
  /\ back_mode
  /\ order # NoOrder
  /\ order.freski.catalog_name # Null
  /\ view.summary = format_user_summary(order)

\* C29: whenever the background-wallpaper height question is on the order
\* message, its height buttons are the enumeration of the material recorded
\* in the order (the velour heights for Velur, the colore heights otherwise),
\* and the height an answer stores is the text of one of those buttons; this
\* also holds after Back and a change of material.
C29_HeightsFollowMaterial ==
  [][LET listed(o) ==
           IF o.background_wallpapers.material_type = "Velur"
           THEN background_heights_velour
           ELSE background_heights_colore
         shown(v) == SelectSeq(v.kb, LAMBDA b : b.prefix = "bg_height")
         expected(o) ==
           [i \in 1..Len(listed(o)) |->
              Button(ToString(listed(o)[i]), "bg_height", i - 1)]
     IN  /\ state' = "background_height" => shown(view') = expected(order')
         /\ (state = "background_height" /\ state' = "background_width") =>
              \E i \in 1..Len(shown(view)) :
                 /\ shown(view)[i].text =
                      order'.background_wallpapers.size_cm.height
                 /\ ToString(listed(order)[shown(view)[i].idx + 1]) =
                      order'.background_wallpapers.size_cm.height]_vars

\* The height question is shown for Kolore on an order that still holds a
\* height answered for Velur: the customer went back to the material
\* question and changed the material.
C29_MaterialChangedAfterHeight ==
  /\ state = "background_height"
  /\ order.background_wallpapers.material_type = "Kolore"
  /\ order.background_wallpapers.size_cm.height = "315"
  /\ nav_used = MaxBacks
  /\ Len(SelectSeq(view.kb, LAMBDA b : b.prefix = "bg_height")) =
        Len(background_heights_colore)

\* C30: choosing the fresco material Kolore or Kolore Lait records the
\* color-proof answer yes and moves to the comment step; the color-proof
\* question of the fresco section is never open for an order whose material
\* is one of the two.
C30_KolorePresetsColorProof ==
  [][LET kolore == {"Kolore", "Kolore Lait"}
         chosen == /\ state = "freski_material"
                   /\ state' # state
                   /\ nav_used' = nav_used
                   /\ ~nav_continue
                   /\ order' # NoOrder
                   /\ order'.freski.material \in kolore
     IN  /\ chosen =>
              /\ state' = "ask_comment"
              /\ order'.freski.color_sample = "Da"
              /\ current_step'.state_name = "ask_comment"
         /\ (state' = "freski_color_sample" /\ order' # NoOrder) =>
              order'.freski.material \notin kolore]_vars

\* Kolore was chosen after a Back to the material question: the comment
\* step is open and the color proof is recorded as yes.
C30_KoloreChosenAfterBack ==
  /\ state = "ask_comment"
  /\ order.freski.material = "Kolore"
  /\ order.freski.color_sample = "Da"
  /\ nav_used = 1
  /\ ~back_mode
  /\ history # <<>>
  /\ history[Len(history)].state_name = "freski_material"

\* C31: choosing the fresco material Krakelur leads to the aging question,
\* and the answer to it records the aging answer and overwrites the material
\* with the variant that matches it (medium degree for yes, no aging for no),
\* changes nothing else of the order and opens the color-proof question.
C31_KrakelurAgingQualifiesMaterial ==
  [][LET forward == /\ state' # state
                    /\ nav_used' = nav_used
                    /\ ~(nav_continue \/ start)
                    /\ order' # NoOrder
     IN  /\ (/\ state = "freski_material"
             /\ forward
             /\ order'.freski.material = "Krakelur") =>
               state' = "freski_crackle_aging"
         /\ (state = "freski_crackle_aging" /\ forward) =>
               /\ state' = "freski_color_sample"
               /\ \/ order' = [order EXCEPT
                                 !.freski.material = "Krakelur srednyaya stepen",
                                 !.freski.crackle_aging = "Da"]
                  \/ order' = [order EXCEPT
                                 !.freski.material = "Krakelur bez stareniya",
                                 !.freski.crackle_aging = "Net"]
               /\ view'.summary = format_user_summary(order')]_vars

\* The aging question was answered no: the color-proof question is open on
\* an order whose material is the variant without aging.
C31_AgingDeclined ==
  /\ state = "freski_color_sample"
  /\ order.freski.material = "Krakelur bez stareniya"
  /\ order.freski.crackle_aging = "Net"
  /\ ~back_mode

\* C32: between the start of a conversation and its finalization at most one
\* order message is created: the first render sends it and remembers its id,
\* and every later render edits the remembered message, so the remembered id
\* never changes and no render sends a second message.
C32_OneOrderMessage ==
  /\ order_message_id \in {0, 1}
  /\ \A i \in DOMAIN dispatcher.suspended :
        dispatcher.suspended[i].message_id \in {0, 1}
  /\ (state # Null /\ Rendered) => order_message_id = 1

\* A section of the menu was pressed while the menu was still being sent:
\* two renders have each sent an order message, and the id remembered is the
\* one of the menu message although the section's question was shown last.
C32_TwoOrderMessages ==
  /\ Rendered
  /\ state = "freski_catalog"
  /\ order_message_id = 1
  /\ dispatcher.ahead = 1
  /\ view.prompt # <<"Vyberite razdel:">>
  /\ history = <<>>

C34_ReviewIffResumeStep ==
  back_mode <=> resume_step # NoStep

\* A second Back was pressed during a review: the conversation is in
\* back-review mode and the resume slot holds the step reviewed before.
C34_BackDuringReview ==
  /\ back_mode
  /\ resume_step # NoStep
  /\ nav_used = 2
  /\ resume_step.state_name # state
  /\ history # <<>>

\* C35: a Back event on an empty history and a Continue event on an empty
\* resume slot change nothing: the state pointer, the history, the resume
\* slot, the back-review flag, the order and the order message stay as they
\* are.
C35_NothingToNavigateTo ==
  [][/\ (nav_back("flow") /\ history = <<>>) =>
           UNCHANGED <<state, history, resume_step, back_mode, order, view>>
     /\ (nav_continue /\ resume_step = NoStep) =>
           UNCHANGED <<state, history, resume_step, back_mode, order, view>>]_vars

\* The conversation has been finalized and reset: the order message still in
\* the chat shows Back, and there is no history and no resume step.
C35_BackButtonAfterReset ==
  /\ state = Null
  /\ pc = "idle"
  /\ history = <<>>
  /\ resume_step = NoStep
  /\ ~back_mode
  /\ HasButton(view.kb, "nav:back", 0)

\* C36: no state of an order conversation, between its start and its
\* finalization and whatever the directory holds, is a dead end: some event
\* of the customer other than Back, Continue and a new start is handled
\* with an effect, which is what lets every conversation reach finalization.
C36_NoDeadEnd ==
  (state # Null /\ pc = "idle") =>
     ENABLED (/\ Customer("empty")
              /\ nav_used' = nav_used
              /\ vars' # vars
              /\ ~(state' = "main_menu" /\ history' = <<>>)
              /\ ~(back_mode /\ ~back_mode' /\ history' = history))

\* The region question is open over a directory without regions: the order
\* message offers no region button, only Back.
C36_NoRegionToChoose ==
  /\ state = "ask_region"
  /\ pc = "idle"
  /\ managers_map = <<>>
  /\ order.client.email # Null
  /\ \A i \in DOMAIN view.kb : view.kb[i].prefix # "region"
  /\ HasButton(view.kb, "nav:back", 0)

C40_LocalCarrierSkipsCrate ==
  [][LET local == {"Kurerskaya Moskva", "Samovyvoz"}
         chosen == /\ state = "delivery_carrier"
                   /\ state' # state
                   /\ nav_used' = nav_used
                   /\ ~(nav_continue \/ start)
                   /\ order' # NoOrder
     IN  chosen =>
           /\ \E i \in 1..Len(delivery_carriers) :
                 order'.delivery.carrier = delivery_carriers[i]
           /\ order'.delivery.carrier \in local =>
                 /\ state' = "ask_legal_entity"
                 /\ order' = [order EXCEPT
                                !.delivery.carrier = order'.delivery.carrier,
                                !.delivery.crate = Null]
                 /\ view'.prompt = <<"Yurlico (IP/OOO):">>
           /\ order'.delivery.carrier \notin local =>
                 /\ state' = "delivery_crate"
                 /\ order' = [order EXCEPT
                                !.delivery.carrier = order'.delivery.carrier]
                 /\ HasButton(view'.kb, "yes", 0)
                 /\ HasButton(view'.kb, "no", 0)]_vars

\* The crate question was answered yes for BaikalServis and the customer
\* went back to the carrier question: pressing Samovyvoz there opens the
\* legal-entity question and sets the recorded crate answer to null.
C40_CrateAnswerDiscarded ==
  /\ state = "delivery_carrier"
  /\ order.delivery.carrier = "BaikalServis"
  /\ order.delivery.crate = "Da"
  /\ nav_used = 2
  /\ ENABLED (/\ delivery_carrier("flow")
              /\ state' = "ask_legal_entity"
              /\ order'.delivery.carrier = "Samovyvoz"
              /\ order'.delivery.crate = Null)

====
